---- MODULE Spec2Model ----
(***************************************************************************)
(* A model of mongodb-base-service: the polymorphic identifier ID          *)
(* (src/src/id.rs), the error taxonomy (src/src/error.rs) and the          *)
(* BaseService operations over one MongoDB collection (src/src/base.rs).   *)
(*                                                                         *)
(* The specifications share the variables:                                 *)
(*   Spec      the top-level operations of BaseService (insert_one,        *)
(*             find_one_by_id, update_one, delete_one_by_id) over a        *)
(*             collection that starts empty;                               *)
(*   SpecEmb   the embedded operations (insert_embedded, update_embedded)  *)
(*             under parents made with insert_one;                         *)
(*   SpecId    the conversions of ID to and from its client-facing string; *)
(*   SpecPage  find / search over an unchanging collection, and a client   *)
(*             that pages through it with the returned cursors;            *)
(*   SpecRace  two callers whose calls interleave at the backend;          *)
(*   SpecArr   the operations on the array fields of parents, with         *)
(*             upsert_embedded and delete_embedded;                        *)
(*   SpecFault the operations over a backend that fails one of their calls;*)
(*   SpecMany  insert_many and insert_one;                                 *)
(*   SpecClock the stamping operations under the clock of the test build;  *)
(*   SpecMock  the mock clock and a caller that sets and reads it.         *)
(***************************************************************************)
EXTENDS Integers, Sequences, FiniteSets, TLC

VARIABLES
    coll,      \* the documents of the collection (data_source())
    clock,     \* the system time, in ticks (SubSec ticks to the second)
    oidCtr,    \* ObjectIds the backend has generated so far
    uuidCtr,   \* uuid::Uuid::new_v4() values generated so far
    nops,      \* operations called so far
    pre,       \* history: the collection as the last operation found it
    resp,      \* the last operation: its name, arguments and outcome
    idIn,      \* SpecId: the ID under conversion
    wire,      \* SpecId: its client-facing string
    idOut,     \* SpecId: the ID parsed back from the string
    pager,     \* SpecPage: the paging client's position and the pages it saw
    mock_time, \* MOCK_TIME of the test build: the time now() reports, if one is set
    spawned,   \* the closures that the mock clock's setters spawned and that have
               \* not run yet
    calls,     \* SpecRace: the calls of the concurrent callers, each with the
               \* backend call it has come to
    asked      \* history: the time that the setters of the mock clock which have
               \* returned asked MOCK_TIME to hold

dbVars == <<coll, clock, oidCtr, uuidCtr, nops, pre, resp>>
idVars == <<idIn, wire, idOut>>
mockVars == <<mock_time, spawned>>
vars == <<coll, clock, oidCtr, uuidCtr, nops, pre, resp, idIn, wire, idOut, pager,
          mock_time, spawned, calls, asked>>

----------------------------------------------------------------------------
(* Bounds of the model.                                                    *)

\* bytes of an ObjectId (12 in bson; scaled down, its hex form has 2 digits per byte)
OidBytes == 1
\* integers of the I64 variant range over -MaxInt..MaxInt
MaxInt == 12
\* operations called in one behaviour
MaxOps == 3
\* ticks of the clock in one behaviour
MaxClock == 2
\* documents in the collection
MaxDocs == 2
\* ObjectIds the backend generates in one behaviour
MaxOid == 2
\* uuids the service generates in one behaviour
MaxUuid == 3
\* embedded items in one array field
MaxItems == 3

----------------------------------------------------------------------------
(* Strings are sequences of one-character strings.                         *)

HexChars == <<"0","1","2","3","4","5","6","7","8","9","a","b","c","d","e","f">>
UpperHexChars == <<"0","1","2","3","4","5","6","7","8","9","A","B","C","D","E","F">>

\* the value of a hexadecimal digit of either case, -1 for any other character
HexVal(c) ==
    IF \E k \in 1..16 : HexChars[k] = c
    THEN (CHOOSE k \in 1..16 : HexChars[k] = c) - 1
    ELSE IF \E k \in 1..16 : UpperHexChars[k] = c
    THEN (CHOOSE k \in 1..16 : UpperHexChars[k] = c) - 1
    ELSE -1

\* ObjectId::to_hex: two lower-case digits per byte
to_hex(o) ==
    [k \in 1..(2 * Len(o)) |->
        IF k % 2 = 1 THEN HexChars[(o[(k + 1) \div 2] \div 16) + 1]
                     ELSE HexChars[(o[k \div 2] % 16) + 1]]

\* ObjectId::with_string succeeds on exactly 2*OidBytes hexadecimal digits
oid_parse_ok(s) ==
    /\ Len(s) = 2 * OidBytes
    /\ \A k \in 1..Len(s) : HexVal(s[k]) >= 0

\* ObjectId::with_string: the bytes the digits denote
oid_with_string(s) ==
    [k \in 1..OidBytes |-> 16 * HexVal(s[2 * k - 1]) + HexVal(s[2 * k])]

\* the decimal digits of a natural number (i64 Display)
RECURSIVE NatDigits(_)
NatDigits(n) ==
    IF n < 10 THEN <<HexChars[n + 1]>>
    ELSE NatDigits(n \div 10) \o <<HexChars[(n % 10) + 1]>>

i64_to_string(i) == IF i < 0 THEN <<"-">> \o NatDigits(-i) ELSE NatDigits(i)

----------------------------------------------------------------------------
(* enum ID.                                                                *)

IdObjectId(o) == [tag |-> "ObjectId", oid |-> o]
IdString(s) == [tag |-> "String", s |-> s]
IdI64(i) == [tag |-> "I64", i |-> i]

\* the reserved marker of the ObjectId variant in client-facing text
OidPrefix == <<"$", "o", "i", "d", ":">>

starts_with(s, p) == Len(s) >= Len(p) /\ SubSeq(s, 1, Len(p)) = p

\* a mutant of id_into_string: the ObjectId variant written without its marker
id_into_string_nomarker(id) ==
    CASE id.tag = "ObjectId" -> to_hex(id.oid)
      [] id.tag = "String" -> id.s
      [] id.tag = "I64" -> i64_to_string(id.i)

\* impl From<ID> for String (ID::to_string is self.clone().into())
id_into_string(id) ==
    CASE id.tag = "ObjectId" -> OidPrefix \o to_hex(id.oid)
      [] id.tag = "String" -> id.s
      [] id.tag = "I64" -> i64_to_string(id.i)

\* ID::from_string
from_string(s) ==
    IF starts_with(s, OidPrefix)
    THEN LET rest == SubSeq(s, 6, Len(s))
         IN IF oid_parse_ok(rest) THEN IdObjectId(oid_with_string(rest))
                                  ELSE IdString(s)
    ELSE IdString(s)

----------------------------------------------------------------------------
(* BSON values that occur as identifiers, and the documents of the model.  *)

BNull == [b |-> "Null"]
BString(s) == [b |-> "String", s |-> s]
BObjectId(o) == [b |-> "ObjectId", oid |-> o]
BI64(i) == [b |-> "I64", i |-> i]
BI32(i) == [b |-> "I32", i |-> i]
\* a key that the document does not have
NoField == [b |-> "Absent"]

\* ID::to_bson
to_bson(id) ==
    CASE id.tag = "ObjectId" -> BObjectId(id.oid)
      [] id.tag = "String" -> BString(id.s)
      [] id.tag = "I64" -> BI64(id.i)

\* ID::with_bson panics on every Bson that is not a String, ObjectId or I64
with_bson_ok(v) == v.b \in {"String", "ObjectId", "I64"}

\* ID::with_bson
with_bson(v) ==
    CASE v.b = "String" -> IdString(v.s)
      [] v.b = "ObjectId" -> IdObjectId(v.oid)
      [] v.b = "I64" -> IdI64(v.i)

\* the backend's equality of two values in a filter: numbers compare by value
BsonEq(v, w) ==
    IF v.b \in {"I32", "I64"} /\ w.b \in {"I32", "I64"} THEN v.i = w.i ELSE v = w

\* Option<ID>::None
NoId == [tag |-> "None"]
\* a string field that the document does not have
NoVal == "none"
\* a timestamp that the node block does not have
NoTime == 0 - 1

\* the node block of a document that has none
NoNode ==
    [date_created |-> NoTime, date_modified |-> NoTime,
     created_by_id |-> NoField, updated_by_id |-> NoField]

\* now().duration_since(UNIX_EPOCH).as_secs(): the clock counts SubSec ticks a second
SubSec == 2
as_secs(t) == t \div SubSec

\* Option<SystemTime>::None in MOCK_TIME
NoMock == 0 - 1
\* no mock time is set and no setter is pending: the build without the mock clock;
\* no concurrent callers
MockIdle == mock_time = NoMock /\ spawned = <<>> /\ calls = <<>> /\ asked = NoMock
\* now(): the mock time if one is set, the system time otherwise
now == IF mock_time = NoMock THEN clock ELSE mock_time

\* a mutant of node_details: date_modified stamped one second after date_created
node_details_skewed(timestamp, user_id) ==
    [date_created |-> timestamp, date_modified |-> timestamp + 1,
     created_by_id |-> IF user_id = NoId THEN NoField ELSE to_bson(user_id),
     updated_by_id |-> IF user_id = NoId THEN NoField ELSE to_bson(user_id)]

\* the node block that the insert operations stamp on a new document or item
node_details(timestamp, user_id) ==
    [date_created |-> timestamp, date_modified |-> timestamp,
     created_by_id |-> IF user_id = NoId THEN NoField ELSE to_bson(user_id),
     updated_by_id |-> IF user_id = NoId THEN NoField ELSE to_bson(user_id)]

\* bson::to_bson of a value: an error, a Bson that is no document, or a document
SerErr == [ser |-> "Err"]
SerNonDoc == [ser |-> "NonDoc"]
SerDoc(id, name) == [ser |-> "Doc", _id |-> id, name |-> name]

\* the array fields of a document that hold embedded items
FieldPaths == {"items", "tags"}

\* the n-th ObjectId the backend generates, the n-th uuid the service generates
GenOid(n) == [k \in 1..OidBytes |-> n]
GenUuid(n) == <<"u", HexChars[n + 1]>>

----------------------------------------------------------------------------
(* The backend's primitives, on a collection held as a set of documents    *)
(* with pairwise different _id.                                            *)

\* Collection::find_one with the filter { _id: v }
coll_find_one(c, v) == {d \in c : BsonEq(d._id, v)}

\* Collection::delete_one with the filter { _id: v }
coll_delete_one(c, v) == {d \in c : ~BsonEq(d._id, v)}

\* a mutant of deleted_count: the documents that stay
deleted_count_kept(c, v) == Cardinality(coll_delete_one(c, v))

\* DeleteResult::deleted_count of that call
deleted_count(c, v) == Cardinality(c) - Cardinality(coll_delete_one(c, v))

\* Collection::insert_one rejects a document whose _id is taken (duplicate key)
coll_insert_dup(c, doc) == doc._id # NoField /\ coll_find_one(c, doc._id) # {}

\* InsertOneResult::inserted_id: the document's _id, a generated ObjectId if it has none
coll_inserted_id(doc, ctr) ==
    IF doc._id = NoField THEN BObjectId(GenOid(ctr + 1)) ELSE doc._id

\* Collection::insert_one
coll_insert_one(c, doc, ctr) == c \cup {[doc EXCEPT !._id = coll_inserted_id(doc, ctr)]}

----------------------------------------------------------------------------
(* Results of the operations: Result<_, ServiceError>, or a panic.         *)

Ok(v) == [r |-> "Ok", val |-> v]
Err(e) == [r |-> "Err", e |-> e]
Panic == [r |-> "Panic"]

\* no operation has been called, or the caller has taken the last result
NoResp == [op |-> "none"]

----------------------------------------------------------------------------
(* BaseService::insert_one.                                                *)

\* the document handed to the backend: the node block attached, a null _id removed
insert_one_document(new_item, timestamp, user_id) ==
    [_id |-> IF new_item._id = BNull THEN NoField ELSE new_item._id,
     name |-> new_item.name,
     node |-> node_details(timestamp, user_id),
     arrays |-> [f \in FieldPaths |-> <<>>]]

\* whether the call reaches the backend and the backend stores the document
insert_one_stores(c, new_item, timestamp, user_id) ==
    /\ new_item.ser = "Doc"
    /\ ~coll_insert_dup(c, insert_one_document(new_item, timestamp, user_id))

\* the collection after the call
insert_one_coll(c, ctr, new_item, timestamp, user_id) ==
    IF insert_one_stores(c, new_item, timestamp, user_id)
    THEN coll_insert_one(c, insert_one_document(new_item, timestamp, user_id), ctr)
    ELSE c

\* the result of the call
insert_one_out(c, ctr, new_item, timestamp, user_id) ==
    IF new_item.ser # "Doc" THEN Err("ParseError")
    ELSE LET document == insert_one_document(new_item, timestamp, user_id)
             inserted_id == coll_inserted_id(document, ctr)
         IN IF coll_insert_dup(c, document) THEN Err("MongoError")
            ELSE IF with_bson_ok(inserted_id) THEN Ok(with_bson(inserted_id))
            ELSE Panic

insert_one(new_item, user_id) ==
    /\ resp = NoResp
    /\ LET timestamp == as_secs(now)
           stores == insert_one_stores(coll, new_item, timestamp, user_id)
       IN /\ stores => Cardinality(coll) < MaxDocs
          /\ stores /\ new_item._id \in {NoField, BNull} => oidCtr < MaxOid
          /\ coll' = insert_one_coll(coll, oidCtr, new_item, timestamp, user_id)
          /\ oidCtr' = IF stores /\ new_item._id \in {NoField, BNull}
                       THEN oidCtr + 1 ELSE oidCtr
          /\ resp' = [op |-> "insert_one", new_item |-> new_item, user_id |-> user_id,
                      out |-> insert_one_out(coll, oidCtr, new_item, timestamp, user_id)]
    /\ pre' = coll
    /\ UNCHANGED <<clock, uuidCtr, idIn, wire, idOut, pager, mock_time, spawned, calls, asked>>

----------------------------------------------------------------------------
(* BaseService::find_one_by_id.                                            *)

\* find_one_by_string_value / find_one_by_i64 / find_one_by_object_id on the id
\* parameter: the set of documents found (at most one)
find_one_by_id(c, id) ==
    CASE id.tag = "String" -> coll_find_one(c, BString(id.s))
      [] id.tag = "I64" -> coll_find_one(c, BI64(id.i))
      [] id.tag = "ObjectId" -> coll_find_one(c, BObjectId(id.oid))

----------------------------------------------------------------------------
(* BaseService::update_one.                                                *)

\* a mutant of update_one_set: the whole node block replaced by a fresh one
update_one_set_replacing(d, update_item, timestamp, user_id) ==
    [d EXCEPT !.name = IF update_item.name = NoVal THEN @ ELSE update_item.name,
              !.node = node_details(timestamp, user_id)]

\* the $set of the call applied to a matched document: the keys of the update
\* document, node.date_modified and, with an actor, node.updated_by_id
update_one_set(d, update_item, timestamp, user_id) ==
    [d EXCEPT !.name = IF update_item.name = NoVal THEN @ ELSE update_item.name,
              !.node.date_modified = timestamp,
              !.node.updated_by_id = IF user_id = NoId THEN @ ELSE to_bson(user_id)]

\* the collection after the call
update_one_coll(c, id, update_item, timestamp, user_id) ==
    IF update_item.ser # "Doc" THEN c
    ELSE {IF BsonEq(d._id, to_bson(id))
          THEN update_one_set(d, update_item, timestamp, user_id) ELSE d : d \in c}

\* the result of the call: the document read back after the update
update_one_out(c, id, update_item, timestamp, user_id) ==
    IF update_item.ser = "Err" THEN Err("ParseError")
    ELSE IF update_item.ser = "NonDoc" THEN Err("Unknown")
    ELSE LET res == coll_find_one(update_one_coll(c, id, update_item, timestamp, user_id),
                                  to_bson(id))
         IN IF res = {} THEN Err("NotFound") ELSE Ok(CHOOSE d \in res : TRUE)

update_one(id, update_item, user_id) ==
    /\ resp = NoResp
    /\ LET timestamp == as_secs(now)
       IN /\ coll' = update_one_coll(coll, id, update_item, timestamp, user_id)
          /\ resp' = [op |-> "update_one", id |-> id, update_item |-> update_item,
                      user_id |-> user_id,
                      out |-> update_one_out(coll, id, update_item, timestamp, user_id)]
    /\ pre' = coll
    /\ UNCHANGED <<clock, oidCtr, uuidCtr, idIn, wire, idOut, pager,
                   mock_time, spawned, calls, asked>>

----------------------------------------------------------------------------
(* BaseService::delete_one_by_id.                                          *)

\* the DeleteResponse of the call
delete_one_by_id_out(c, id) ==
    Ok([id |-> id, success |-> (deleted_count(c, to_bson(id)) = 1)])

delete_one_by_id(id) ==
    /\ resp = NoResp
    /\ coll' = coll_delete_one(coll, to_bson(id))
    /\ resp' = [op |-> "delete_one_by_id", id |-> id, out |-> delete_one_by_id_out(coll, id)]
    /\ pre' = coll
    /\ UNCHANGED <<clock, oidCtr, uuidCtr, idIn, wire, idOut, pager,
                   mock_time, spawned, calls, asked>>

----------------------------------------------------------------------------
(* BaseService::insert_embedded.                                           *)

\* the fold over new_items: the members to append, the identifiers recorded, the
\* uuids drawn so far, and whether ID::with_bson panicked on an item's _id
RECURSIVE insert_embedded_fold(_, _, _, _)
insert_embedded_fold(new_items, timestamp, user_id, ctr) ==
    IF new_items = <<>>
    THEN [members |-> <<>>, ids |-> <<>>, ctr |-> ctr, panic |-> FALSE]
    ELSE LET item == Head(new_items)
         IN IF item.ser # "Doc"
            THEN insert_embedded_fold(Tail(new_items), timestamp, user_id, ctr)
            ELSE LET fallback_id == GenUuid(ctr + 1)
                     fallback == item._id \in {NoField, BNull}
                 IN IF ~fallback /\ ~with_bson_ok(item._id)
                    THEN [members |-> <<>>, ids |-> <<>>, ctr |-> ctr + 1, panic |-> TRUE]
                    ELSE LET rest == insert_embedded_fold(Tail(new_items), timestamp,
                                                          user_id, ctr + 1)
                             member ==
                                 [_id |-> IF fallback THEN BString(fallback_id) ELSE item._id,
                                  name |-> item.name,
                                  node |-> node_details(timestamp, user_id)]
                             i == IF fallback THEN IdString(fallback_id)
                                  ELSE with_bson(item._id)
                         IN [members |-> <<member>> \o rest.members,
                             ids |-> <<i>> \o rest.ids,
                             ctr |-> rest.ctr,
                             panic |-> rest.panic]

\* a mutant of coll_push: the update is an upsert whatever the caller asked for, and
\* makes the document when the filter matches none
coll_push_upserting(c, v, field_path, members, upsert) ==
    IF {d \in c : BsonEq(d._id, v)} = {}
    THEN c \cup {[_id |-> v, name |-> NoVal, node |-> NoNode,
                  arrays |-> [f \in FieldPaths |-> IF f = field_path THEN members ELSE <<>>]]}
    ELSE {IF BsonEq(d._id, v)
          THEN [d EXCEPT !.arrays[field_path] = @ \o members] ELSE d : d \in c}

\* Collection::update_one with { $push: { field_path: { $each: members } } }
coll_push(c, v, field_path, members, upsert) ==
    {IF BsonEq(d._id, v)
     THEN [d EXCEPT !.arrays[field_path] = @ \o members] ELSE d : d \in c}

\* a mutant of insert_embedded_found: the existence check left out
insert_embedded_found_unchecked(c, id) == TRUE

\* the find_one of the parent at the start of the call
insert_embedded_found(c, id) == coll_find_one(c, to_bson(id)) # {}

\* the collection after the call
insert_embedded_coll(c, id, field_path, new_items, timestamp, user_id, ctr) ==
    LET f == insert_embedded_fold(new_items, timestamp, user_id, ctr)
    IN IF insert_embedded_found(c, id) /\ ~f.panic
       THEN coll_push(c, to_bson(id), field_path, f.members, FALSE)
       ELSE c

\* the result of the call
insert_embedded_out(c, id, field_path, new_items, timestamp, user_id, ctr) ==
    LET f == insert_embedded_fold(new_items, timestamp, user_id, ctr)
    IN IF ~insert_embedded_found(c, id) THEN Err("NotFound")
       ELSE IF f.panic THEN Panic
       ELSE Ok(f.ids)

insert_embedded(id, field_path, new_items, user_id) ==
    /\ resp = NoResp
    /\ LET timestamp == as_secs(now)
           f == insert_embedded_fold(new_items, timestamp, user_id, uuidCtr)
           found == insert_embedded_found(coll, id)
       IN /\ found => f.ctr <= MaxUuid
          /\ \A d \in coll_find_one(coll, to_bson(id)) :
                 Len(d.arrays[field_path]) + Len(f.members) <= MaxItems
          /\ coll' = insert_embedded_coll(coll, id, field_path, new_items, timestamp,
                                          user_id, uuidCtr)
          /\ uuidCtr' = IF found THEN f.ctr ELSE uuidCtr
          /\ resp' = [op |-> "insert_embedded", id |-> id, field_path |-> field_path,
                      new_items |-> new_items, user_id |-> user_id,
                      out |-> insert_embedded_out(coll, id, field_path, new_items,
                                                  timestamp, user_id, uuidCtr)]
    /\ pre' = coll
    /\ UNCHANGED <<clock, oidCtr, idIn, wire, idOut, pager, mock_time, spawned, calls, asked>>

----------------------------------------------------------------------------
(* BaseService::update_embedded.                                           *)

\* the positions of the elements of an array whose _id equals v
embedded_matches(arr, v) == {k \in 1..Len(arr) : BsonEq(arr[k]._id, v)}

\* a mutant of positional: the last matching element instead of the first
positional_last(arr, v) ==
    IF embedded_matches(arr, v) = {} THEN 0
    ELSE CHOOSE k \in embedded_matches(arr, v) : \A j \in embedded_matches(arr, v) : j <= k

\* the position that "$" stands for: the first element matching the filter, 0 if none
positional(arr, v) ==
    IF embedded_matches(arr, v) = {} THEN 0
    ELSE CHOOSE k \in embedded_matches(arr, v) : \A j \in embedded_matches(arr, v) : k <= j

\* a mutant of update_embedded_set: the $set applied to every element ("$[]")
update_embedded_set_all(arr, k, update_item, timestamp, user_id) ==
    [j \in 1..Len(arr) |->
        [arr[j] EXCEPT
            !.name = IF update_item.name = NoVal THEN @ ELSE update_item.name,
            !.node.date_modified = timestamp,
            !.node.updated_by_id = IF user_id = NoId THEN @ ELSE to_bson(user_id)]]

\* a mutant of update_embedded_set: the element replaced as a whole
\* ($set of "field.$" itself), under a fresh node block
update_embedded_set_whole(arr, k, update_item, timestamp, user_id) ==
    [arr EXCEPT
        ![k] = [_id |-> @._id,
                name |-> IF update_item.name = NoVal THEN @.name ELSE update_item.name,
                node |-> node_details(timestamp, user_id)]]

\* the $set of the call on the array: the keys of the update document,
\* node.date_modified and, with an actor, node.updated_by_id, all under "field.$"
update_embedded_set(arr, k, update_item, timestamp, user_id) ==
    [arr EXCEPT
        ![k].name = IF update_item.name = NoVal THEN @ ELSE update_item.name,
        ![k].node.date_modified = timestamp,
        ![k].node.updated_by_id = IF user_id = NoId THEN @ ELSE to_bson(user_id)]

\* the collection after the call: update_one with the filter
\* { _id: id, "field._id": embedded_id }
update_embedded_coll(c, id, field_path, embedded_id, update_item, timestamp, user_id) ==
    IF update_item.ser # "Doc" THEN c
    ELSE {IF /\ BsonEq(d._id, to_bson(id))
             /\ positional(d.arrays[field_path], to_bson(embedded_id)) # 0
          THEN [d EXCEPT !.arrays[field_path] =
                    update_embedded_set(@, positional(@, to_bson(embedded_id)),
                                        update_item, timestamp, user_id)]
          ELSE d : d \in c}

\* the result of the call: the parent read back, whatever the update matched
update_embedded_out(c, id, field_path, embedded_id, update_item, timestamp, user_id) ==
    IF update_item.ser = "Err" THEN Err("ParseError")
    ELSE IF update_item.ser = "NonDoc" THEN Err("Unknown")
    ELSE LET res == coll_find_one(
                        update_embedded_coll(c, id, field_path, embedded_id, update_item,
                                             timestamp, user_id), to_bson(id))
         IN IF res = {} THEN Err("NotFound") ELSE Ok(CHOOSE d \in res : TRUE)

update_embedded(id, field_path, embedded_id, update_item, user_id) ==
    /\ resp = NoResp
    /\ LET timestamp == as_secs(now)
       IN /\ coll' = update_embedded_coll(coll, id, field_path, embedded_id, update_item,
                                          timestamp, user_id)
          /\ resp' = [op |-> "update_embedded", id |-> id, field_path |-> field_path,
                      embedded_id |-> embedded_id, update_item |-> update_item,
                      user_id |-> user_id,
                      out |-> update_embedded_out(coll, id, field_path, embedded_id,
                                                  update_item, timestamp, user_id)]
    /\ pre' = coll
    /\ UNCHANGED <<clock, oidCtr, uuidCtr, idIn, wire, idOut, pager,
                   mock_time, spawned, calls, asked>>

----------------------------------------------------------------------------
(* BaseService::delete_embedded.                                           *)

\* a sequence without the elements whose _id equals w
RECURSIVE pull(_, _)
pull(arr, w) ==
    IF arr = <<>> THEN <<>>
    ELSE IF BsonEq(Head(arr)._id, w) THEN pull(Tail(arr), w)
    ELSE <<Head(arr)>> \o pull(Tail(arr), w)

\* a mutant of coll_pull: only the first matching element is removed
coll_pull_first(c, v, field_path, w) ==
    {IF BsonEq(d._id, v) /\ positional(d.arrays[field_path], w) # 0
     THEN [d EXCEPT !.arrays[field_path] =
               SubSeq(@, 1, positional(@, w) - 1) \o SubSeq(@, positional(@, w) + 1, Len(@))]
     ELSE d : d \in c}

\* Collection::update_one with { $pull: { field_path: { _id: w } } } and the filter
\* { _id: v }
coll_pull(c, v, field_path, w) ==
    {IF BsonEq(d._id, v)
     THEN [d EXCEPT !.arrays[field_path] = pull(@, w)] ELSE d : d \in c}

\* the collection after the call
delete_embedded_coll(c, id, field_path, embedded_id) ==
    coll_pull(c, to_bson(id), field_path, to_bson(embedded_id))

\* the DeleteResponse of the call
delete_embedded_out(embedded_id) == Ok([id |-> embedded_id, success |-> TRUE])

delete_embedded(id, field_path, embedded_id) ==
    /\ resp = NoResp
    /\ coll' = delete_embedded_coll(coll, id, field_path, embedded_id)
    /\ resp' = [op |-> "delete_embedded", id |-> id, field_path |-> field_path,
                embedded_id |-> embedded_id, out |-> delete_embedded_out(embedded_id)]
    /\ pre' = coll
    /\ UNCHANGED <<clock, oidCtr, uuidCtr, idIn, wire, idOut, pager,
                   mock_time, spawned, calls, asked>>

----------------------------------------------------------------------------
(* BaseService::upsert_embedded.                                           *)

\* parent: Option<U> = None
NoParent == [ser |-> "None"]

\* the fold over new_items: the members to append, the identifiers recorded, the
\* uuids drawn so far, and whether ID::with_bson panicked on an item's _id (as it
\* does on every _id that is present and no String, ObjectId or I64, null included)
RECURSIVE upsert_embedded_fold(_, _, _, _)
upsert_embedded_fold(new_items, timestamp, user_id, ctr) ==
    IF new_items = <<>>
    THEN [members |-> <<>>, ids |-> <<>>, ctr |-> ctr, panic |-> FALSE]
    ELSE LET item == Head(new_items)
         IN IF item.ser # "Doc"
            THEN upsert_embedded_fold(Tail(new_items), timestamp, user_id, ctr)
            ELSE IF item._id # NoField /\ ~with_bson_ok(item._id)
            THEN [members |-> <<>>, ids |-> <<>>, ctr |-> ctr, panic |-> TRUE]
            ELSE LET generated == item._id = NoField
                     insert_id == GenUuid(ctr + 1)
                     rest == upsert_embedded_fold(Tail(new_items), timestamp, user_id,
                                                  IF generated THEN ctr + 1 ELSE ctr)
                     member ==
                         [_id |-> IF generated THEN BString(insert_id) ELSE item._id,
                          name |-> item.name,
                          node |-> node_details(timestamp, user_id)]
                     i == IF generated THEN IdString(insert_id) ELSE with_bson(item._id)
                 IN [members |-> <<member>> \o rest.members,
                     ids |-> <<i>> \o rest.ids,
                     ctr |-> rest.ctr,
                     panic |-> rest.panic]

\* the document that the backend inserts when the filter of an upsert matches none:
\* the _id of the filter, the pushed members and the $setOnInsert fields
upserted_document(v, field_path, members, parent) ==
    [_id |-> v,
     name |-> IF parent = NoParent THEN NoVal ELSE parent.name,
     node |-> NoNode,
     arrays |-> [f \in FieldPaths |-> IF f = field_path THEN members ELSE <<>>]]

\* a mutant of coll_upsert_push: the fields of parent are set on a document that
\* exists too ($set in place of $setOnInsert)
coll_upsert_push_setting(c, v, field_path, members, parent) ==
    IF coll_find_one(c, v) # {}
    THEN {IF BsonEq(d._id, v) /\ parent # NoParent THEN [d EXCEPT !.name = parent.name]
          ELSE d : d \in coll_push(c, v, field_path, members, TRUE)}
    ELSE c \cup {upserted_document(v, field_path, members, parent)}

\* Collection::update_one with { $push: .., $setOnInsert: parent } and upsert: true
coll_upsert_push(c, v, field_path, members, parent) ==
    IF coll_find_one(c, v) # {} THEN coll_push(c, v, field_path, members, TRUE)
    ELSE c \cup {upserted_document(v, field_path, members, parent)}

\* whether the call comes to its update_one and the backend accepts it
upsert_embedded_writes(new_items, timestamp, user_id, ctr, parent) ==
    /\ ~upsert_embedded_fold(new_items, timestamp, user_id, ctr).panic
    /\ parent.ser \in {"None", "Doc"}

\* the collection after the call
upsert_embedded_coll(c, id, field_path, new_items, timestamp, user_id, ctr, parent) ==
    IF upsert_embedded_writes(new_items, timestamp, user_id, ctr, parent)
    THEN coll_upsert_push(c, to_bson(id), field_path,
                          upsert_embedded_fold(new_items, timestamp, user_id, ctr).members,
                          parent)
    ELSE c

\* the result of the call
upsert_embedded_out(new_items, timestamp, user_id, ctr, parent) ==
    LET f == upsert_embedded_fold(new_items, timestamp, user_id, ctr)
    IN IF f.panic THEN Panic
       ELSE IF parent.ser = "Err" THEN Err("ParseError")
       ELSE IF parent.ser = "NonDoc" THEN Err("MongoError")
       ELSE Ok(f.ids)

upsert_embedded(id, field_path, new_items, user_id, parent) ==
    /\ resp = NoResp
    /\ LET timestamp == as_secs(now)
           f == upsert_embedded_fold(new_items, timestamp, user_id, uuidCtr)
           writes == upsert_embedded_writes(new_items, timestamp, user_id, uuidCtr, parent)
       IN /\ f.ctr <= MaxUuid
          /\ \A d \in coll_find_one(coll, to_bson(id)) :
                 Len(d.arrays[field_path]) + Len(f.members) <= MaxItems
          /\ (writes /\ coll_find_one(coll, to_bson(id)) = {}) => Cardinality(coll) < MaxDocs
          /\ coll' = upsert_embedded_coll(coll, id, field_path, new_items, timestamp,
                                          user_id, uuidCtr, parent)
          /\ uuidCtr' = f.ctr
          /\ resp' = [op |-> "upsert_embedded", id |-> id, field_path |-> field_path,
                      new_items |-> new_items, user_id |-> user_id, parent |-> parent,
                      out |-> upsert_embedded_out(new_items, timestamp, user_id, uuidCtr,
                                                  parent)]
    /\ pre' = coll
    /\ UNCHANGED <<clock, oidCtr, idIn, wire, idOut, pager, mock_time, spawned, calls, asked>>

----------------------------------------------------------------------------
(* BaseService::insert_many.                                               *)

\* the fold over new_items: the documents handed to the backend, each with its node
\* block and with the _id that the item brought, a null one included
RECURSIVE insert_many_fold(_, _, _)
insert_many_fold(new_items, timestamp, user_id) ==
    IF new_items = <<>> THEN <<>>
    ELSE LET item == Head(new_items)
             rest == insert_many_fold(Tail(new_items), timestamp, user_id)
         IN IF item.ser # "Doc" THEN rest
            ELSE <<[_id |-> item._id, name |-> item.name,
                    node |-> node_details(timestamp, user_id),
                    arrays |-> [f \in FieldPaths |-> <<>>]]>> \o rest

\* Collection::insert_many with ordered: false: every document whose _id is not
\* taken is inserted, a document without _id under a generated ObjectId; failed
\* tells whether some document was refused
RECURSIVE coll_insert_many(_, _, _)
coll_insert_many(c, docs, ctr) ==
    IF docs = <<>> THEN [coll |-> c, ctr |-> ctr, inserted_ids |-> <<>>, failed |-> FALSE]
    ELSE LET doc == Head(docs)
         IN IF coll_insert_dup(c, doc)
            THEN [coll_insert_many(c, Tail(docs), ctr) EXCEPT !.failed = TRUE]
            ELSE [coll_insert_many(coll_insert_one(c, doc, ctr), Tail(docs),
                                   IF doc._id = NoField THEN ctr + 1 ELSE ctr)
                      EXCEPT !.inserted_ids = <<coll_inserted_id(doc, ctr)>> \o @]

\* the orders in which a HashMap of n entries hands out its values
Orders(n) == {p \in [1..n -> 1..n] : \A j, k \in 1..n : p[j] = p[k] => j = k}

\* result.inserted_ids.values().map(ID::with_bson).collect()
insert_many_ids(inserted_ids, order) ==
    [k \in 1..Len(inserted_ids) |-> with_bson(inserted_ids[order[k]])]

\* the collection after the call
insert_many_coll(c, ctr, new_items, timestamp, user_id) ==
    coll_insert_many(c, insert_many_fold(new_items, timestamp, user_id), ctr).coll

\* the results that the call can have: with no document to insert the driver
\* decides between an empty result and an error; a refused document makes the
\* call an error; an inserted id that ID does not take makes with_bson panic
insert_many_outs(c, ctr, new_items, timestamp, user_id) ==
    LET docs == insert_many_fold(new_items, timestamp, user_id)
        result == coll_insert_many(c, docs, ctr)
    IN IF docs = <<>> THEN {Ok(<<>>), Err("MongoError")}
       ELSE IF result.failed THEN {Err("MongoError")}
       ELSE IF \E k \in 1..Len(result.inserted_ids) : ~with_bson_ok(result.inserted_ids[k])
       THEN {Panic}
       ELSE {Ok(insert_many_ids(result.inserted_ids, order)) :
                 order \in Orders(Len(result.inserted_ids))}

insert_many(new_items, user_id) ==
    /\ resp = NoResp
    /\ LET timestamp == as_secs(now)
           result == coll_insert_many(coll, insert_many_fold(new_items, timestamp, user_id),
                                      oidCtr)
       IN /\ Cardinality(result.coll) <= MaxDocs
          /\ result.ctr <= MaxOid
          /\ coll' = insert_many_coll(coll, oidCtr, new_items, timestamp, user_id)
          /\ oidCtr' = result.ctr
          /\ \E out \in insert_many_outs(coll, oidCtr, new_items, timestamp, user_id) :
                 resp' = [op |-> "insert_many", new_items |-> new_items,
                          user_id |-> user_id, out |-> out]
    /\ pre' = coll
    /\ UNCHANGED <<clock, uuidCtr, idIn, wire, idOut, pager, mock_time, spawned, calls, asked>>

----------------------------------------------------------------------------
(* mod mock_time: the clock of the test build.  Each setter spawns a thread *)
(* that stores the new value in MOCK_TIME and does not wait for it.        *)

\* closures spawned and not yet run
MaxSpawned == 2

\* thread::spawn of a closure that stores t: the closures wait in no order (any of
\* them may run next), and are listed by their values
spawn(s, t) ==
    LET k == Cardinality({j \in 1..Len(s) : s[j] <= t})
    IN SubSeq(s, 1, k) \o <<t>> \o SubSeq(s, k + 1, Len(s))

\* the variables that the mock clock's functions leave alone
MockFrame ==
    UNCHANGED <<coll, clock, oidCtr, uuidCtr, nops, pre, resp, idIn, wire, idOut, pager, calls>>

\* set_mock_time(time): spawns the closure that stores Some(time)
set_mock_time(time) ==
    /\ Len(spawned) < MaxSpawned
    /\ spawned' = spawn(spawned, time)
    /\ asked' = time
    /\ UNCHANGED mock_time
    /\ MockFrame

\* increase_mock_time(millis): reads now(), spawns the closure that stores
\* Some(current_time + millis)
increase_mock_time(millis) ==
    /\ Len(spawned) < MaxSpawned
    /\ now + millis <= MaxClock
    /\ spawned' = spawn(spawned, now + millis)
    /\ asked' = (IF asked = NoMock THEN clock ELSE asked) + millis
    /\ UNCHANGED mock_time
    /\ MockFrame

\* clear_mock_time(): spawns the closure that stores None
clear_mock_time ==
    /\ Len(spawned) < MaxSpawned
    /\ spawned' = spawn(spawned, NoMock)
    /\ asked' = NoMock
    /\ UNCHANGED mock_time
    /\ MockFrame

\* one of the spawned closures takes the lock and stores its value
run_spawned(k) ==
    /\ k \in 1..Len(spawned)
    /\ mock_time' = spawned[k]
    /\ spawned' = SubSeq(spawned, 1, k - 1) \o SubSeq(spawned, k + 1, Len(spawned))
    /\ UNCHANGED asked
    /\ MockFrame

\* now(): the caller reads the clock; the thread that reads MOCK_TIME is joined.
\* The closures not yet run at the reading are kept with it.
now_call ==
    /\ resp = NoResp
    /\ resp' = [op |-> "now", out |-> Ok(now), pending |-> spawned]
    /\ pre' = coll
    /\ UNCHANGED <<coll, clock, oidCtr, uuidCtr, nops, idIn, wire, idOut, pager,
                   mock_time, spawned, calls, asked>>

----------------------------------------------------------------------------
(* The clock and the caller.                                               *)

\* time passes between two operations
Tick ==
    /\ resp = NoResp
    /\ clock < MaxClock
    /\ clock' = clock + 1
    /\ UNCHANGED <<coll, oidCtr, uuidCtr, nops, pre, resp, idIn, wire, idOut, pager,
                   mock_time, spawned, calls, asked>>

\* the caller takes the result of the operation
Return ==
    /\ resp # NoResp
    /\ resp' = NoResp
    /\ pre' = {}
    /\ UNCHANGED <<coll, clock, oidCtr, uuidCtr, nops, idIn, wire, idOut, pager,
                   mock_time, spawned, calls, asked>>

----------------------------------------------------------------------------
(* Inputs.                                                                 *)

UserA == IdString(<<"p">>)
UserB == IdString(<<"q">>)
\* the actor of an insert, the actor of an update
Creators == {NoId, UserA}
Updaters == {NoId, UserB}

\* the _id of an item handed to insert_one: none, null, a string, an i64, an i32
TopIds == {NoField, BNull, BString(<<"a">>), BI64(1), BI32(2)}
TopItems == {SerErr, SerNonDoc} \cup {SerDoc(i, "a") : i \in TopIds}
\* the update documents: one that renames, one without the name, and the failures
UpdateItems ==
    {SerErr, SerNonDoc, [ser |-> "Doc", name |-> "b"], [ser |-> "Doc", name |-> NoVal]}
\* the identifiers that operations address
OpIds == {IdString(<<"a">>), IdI64(1), IdI64(2), IdObjectId(GenOid(1))}

\* the state that the specifications other than SpecId leave alone
NoWire == [set |-> FALSE]
IdIdle == idIn = NoId /\ wire = NoWire /\ idOut = NoId
PagerIdle == pager = [phase |-> "off"]

Init ==
    /\ coll = {}
    /\ clock = 0
    /\ MockIdle
    /\ oidCtr = 0
    /\ uuidCtr = 0
    /\ nops = 0
    /\ pre = {}
    /\ resp = NoResp
    /\ IdIdle
    /\ PagerIdle

\* every operation counts against the bound on operations
Counted == nops < MaxOps /\ nops' = nops + 1

Next ==
    \/ \E new_item \in TopItems, user_id \in Creators :
           insert_one(new_item, user_id) /\ Counted
    \/ \E id \in OpIds, update_item \in UpdateItems, user_id \in Updaters :
           update_one(id, update_item, user_id) /\ Counted
    \/ \E id \in OpIds : delete_one_by_id(id) /\ Counted
    \/ Tick
    \/ Return

Spec == Init /\ [][Next]_vars

----------------------------------------------------------------------------
(* SpecEmb: the operations on embedded items, over parents that insert_one  *)
(* creates.                                                                *)

\* the parents: one with an _id of its own, one left to the backend
ParentItems == {SerDoc(BString(<<"a">>), "a"), SerDoc(NoField, "a")}
ParentIds == {IdString(<<"a">>), IdObjectId(GenOid(1))}

\* the _id of an embedded item: none, null, a string, an i32
EmbIds == {NoField, BNull, BString(<<"x">>), BI32(2)}
EmbItems == {SerErr, SerNonDoc} \cup {SerDoc(i, "a") : i \in EmbIds}
\* the lists of new items: none, one of any kind, or two with the first skipped,
\* given an identifier or left without one
EmbLists ==
    {<<>>} \cup {<<i>> : i \in EmbItems}
           \cup {<<i, j>> : i \in {SerNonDoc, SerDoc(NoField, "a"), SerDoc(BString(<<"x">>), "a")},
                           j \in {SerDoc(NoField, "a"), SerDoc(BString(<<"x">>), "a")}}
\* the array field that the callers of SpecEmb name
EmbPaths == {"items"}
\* the identifiers that operations address embedded items by
EmbOpIds == {IdString(<<"x">>), IdString(GenUuid(1)), IdString(GenUuid(2))}

NextEmb ==
    \/ \E new_item \in ParentItems : insert_one(new_item, NoId) /\ Counted
    \/ \E id \in ParentIds, fp \in EmbPaths, new_items \in EmbLists,
          user_id \in Creators : insert_embedded(id, fp, new_items, user_id) /\ Counted
    \/ \E id \in ParentIds, fp \in EmbPaths, embedded_id \in EmbOpIds,
          update_item \in UpdateItems, user_id \in Updaters :
           update_embedded(id, fp, embedded_id, update_item, user_id) /\ Counted
    \/ Tick
    \/ Return

SpecEmb == Init /\ [][NextEmb]_vars

----------------------------------------------------------------------------
(* SpecId: an ID is written as its client-facing string and parsed back.   *)

\* the sequences over S of length up to n
SeqsUpTo(S, n) == UNION {[1..k -> S] : k \in 0..n}

\* the bytes ObjectIds are made of, the characters strings are made of
ByteVals == {0, 10, 171, 255}
StrChars == {"a", "A", "0", "g"}
\* the strings: up to the length of an ObjectId's hex form, bare or behind the marker
StrPool ==
    SeqsUpTo(StrChars, 2 * OidBytes)
        \cup {OidPrefix \o s : s \in SeqsUpTo(StrChars, 2 * OidBytes)}
IdPool ==
    {IdObjectId(o) : o \in [1..OidBytes -> ByteVals]}
        \cup {IdString(s) : s \in StrPool}
        \cup {IdI64(i) : i \in (0 - MaxInt)..MaxInt}

InitId ==
    /\ coll = {}
    /\ clock = 0
    /\ MockIdle
    /\ oidCtr = 0
    /\ uuidCtr = 0
    /\ nops = 0
    /\ pre = {}
    /\ resp = NoResp
    /\ idIn \in IdPool
    /\ wire = NoWire
    /\ idOut = NoId
    /\ PagerIdle

\* String::from(id), id.to_string()
ToWire ==
    /\ wire = NoWire
    /\ wire' = [set |-> TRUE, s |-> id_into_string(idIn)]
    /\ UNCHANGED <<coll, clock, oidCtr, uuidCtr, nops, pre, resp, idIn, idOut, pager,
                   mock_time, spawned, calls, asked>>

\* ID::from_string(wire)
FromWire ==
    /\ wire # NoWire
    /\ idOut = NoId
    /\ idOut' = from_string(wire.s)
    /\ UNCHANGED <<coll, clock, oidCtr, uuidCtr, nops, pre, resp, idIn, wire, pager,
                   mock_time, spawned, calls, asked>>

NextId == ToWire \/ FromWire

SpecId == InitId /\ [][NextId]_vars

----------------------------------------------------------------------------
(* Filters, sorts and cursor tokens of find and search.                    *)

\* Option<i32>::None, Option<String>::None, Option<Document>::None
NoInt == 0 - 1
NoToken == [some |-> FALSE]
SomeToken(t) == [some |-> TRUE, tok |-> t]
NoDoc == [kind |-> "none"]

\* const DEFAULT_LIMIT
DEFAULT_LIMIT == 25

\* BaseService::default_limit, default_sort (MongoService built without a sort of
\* its own), default_filter
default_limit == DEFAULT_LIMIT
default_sort == [kind |-> "sort", field |-> "_id", dir |-> 1]
default_filter == NoDoc

\* the values of the name field in the order the backend sorts strings, and the
\* characters they are made of
NameOrder == <<"Ab", "a", "b">>
NameRank(n) == CHOOSE k \in 1..Len(NameOrder) : NameOrder[k] = n
NameChars(n) ==
    CASE n = "Ab" -> <<"A", "b">>
      [] n = "a" -> <<"a">>
      [] n = "b" -> <<"b">>

\* voca_rs::case::snake_case on the field names that search is called with
snake_case(f) ==
    CASE f = "name" -> "name"
      [] f = "Name" -> "name"
      [] f = "nickName" -> "nick_name"

LowerChar(c) == IF c = "A" THEN "a" ELSE IF c = "B" THEN "b" ELSE c
Lower(s) == [k \in 1..Len(s) |-> LowerChar(s[k])]

\* the backend's match of Bson::RegExp(term, "i") for a literal term: the term
\* occurs in the value, letter case ignored
regex_i(term, value) ==
    \E k \in 0..(Len(value) - Len(term)) :
        SubSeq(Lower(value), k + 1, k + Len(term)) = Lower(term)

\* the filter that search builds: one { field: /term/i } per field, under $or
search_filter(search_term, fields) ==
    [kind |-> "or",
     fields |-> [k \in 1..Len(fields) |-> snake_case(fields[k])],
     term |-> search_term]

\* whether the backend's query with a filter selects a document
Matches(d, filter) ==
    CASE filter.kind = "none" -> TRUE
      [] filter.kind = "name" -> d.name = filter.name
      [] filter.kind = "or" ->
            \E k \in 1..Len(filter.fields) :
                filter.fields[k] = "name" /\ regex_i(filter.term, NameChars(d.name))

\* x comes before y in the order of a sort, ties on the sort field broken by _id
Before(x, y, sort) ==
    IF sort.field = "_id" \/ x.name = y.name
    THEN IF sort.dir = 1 THEN x._id.i < y._id.i ELSE x._id.i > y._id.i
    ELSE IF sort.dir = 1 THEN NameRank(x.name) < NameRank(y.name)
                         ELSE NameRank(x.name) > NameRank(y.name)

reversed(sort) == [sort EXCEPT !.dir = 0 - sort.dir]

\* a set of documents as the sequence a query sorted by sort returns
RECURSIVE Sorted(_, _)
Sorted(S, sort) ==
    IF S = {} THEN <<>>
    ELSE LET first == CHOOSE x \in S : \A y \in S \ {x} : Before(x, y, sort)
         IN <<first>> \o Sorted(S \ {first}, sort)

Take(q, n) == SubSeq(q, 1, IF n < Len(q) THEN n ELSE Len(q))
Drop(q, n) == SubSeq(q, n + 1, Len(q))
Reverse(q) == [k \in 1..Len(q) |-> q[Len(q) + 1 - k]]

\* the cursor token of a boundary item: its sort-key values
encode_cursor(d) == <<NameRank(d.name), d._id.i>>
\* a token that decodes
cursor_ok(t) == Len(t) = 2 /\ t[1] \in 1..Len(NameOrder) /\ t[2] >= 1
\* the boundary that a token decodes to
decode_cursor(t) == [name |-> NameOrder[t[1]], _id |-> BI64(t[2])]

\* PaginatedCursor::new(options, cursor, direction) followed by its find: the page
\* on the side of the cursor that the direction names, in the order of the sort
paginated_find(c, options, cursor, direction, filter) ==
    IF cursor.some /\ ~cursor_ok(cursor.tok) THEN Err("InvalidCursor")
    ELSE LET previous == direction = "Previous"
             cand == {d \in c :
                        /\ Matches(d, filter)
                        /\ cursor.some =>
                             IF previous
                             THEN Before(d, decode_cursor(cursor.tok), options.sort)
                             ELSE Before(decode_cursor(cursor.tok), d, options.sort)}
             scan == Drop(Sorted(cand, IF previous THEN reversed(options.sort)
                                                    ELSE options.sort), options.skip)
             batch == Take(scan, options.limit)
             more == Len(scan) > options.limit
             items == IF previous THEN Reverse(batch) ELSE batch
         IN Ok([items |-> items,
                has_next_page |-> IF previous THEN TRUE ELSE more,
                has_previous_page |-> IF previous THEN more ELSE cursor.some,
                start_cursor |-> IF items = <<>> THEN NoToken
                                 ELSE SomeToken(encode_cursor(items[1])),
                end_cursor |-> IF items = <<>> THEN NoToken
                               ELSE SomeToken(encode_cursor(items[Len(items)]))])

\* a mutant of from_cursor_error: the library's Unknown kept as Unknown
from_cursor_error_unknown(kind) ==
    CASE kind = "IoError" -> "IoError"
      [] kind = "InvalidCursor" -> "InvalidCursor"
      [] kind = "Unknown" -> "Unknown"
      [] kind = "InvalidId" -> "InvalidCursor"

\* impl From<CursorError> for ServiceError
from_cursor_error(kind) ==
    CASE kind = "IoError" -> "IoError"
      [] kind = "InvalidCursor" -> "InvalidCursor"
      [] kind = "Unknown" -> "InvalidCursor"
      [] kind = "InvalidId" -> "InvalidCursor"

----------------------------------------------------------------------------
(* BaseService::find and BaseService::search.                              *)

\* FindOptions::builder().limit(..).skip(..).sort(..)
find_options(sort, limit, skip) ==
    [limit |-> IF limit = NoInt THEN default_limit ELSE limit,
     skip |-> IF skip = NoInt THEN 0 ELSE skip,
     sort |-> IF sort = NoDoc THEN default_sort ELSE sort]

\* a mutant of is_previous_query: before alone decides
is_previous_query_before(after, before) == before.some

\* a mutant of is_previous_query: never backward
is_previous_query_never(after, before) == FALSE

\* let is_previous_query = before.is_some() && after.is_none()
is_previous_query(after, before) == before.some /\ ~after.some

\* query_cursor.find(&coll, filter)?: the library's page, its failure converted;
\* fault is the failure, if any, of the library's query
query_cursor_find(c, options, after, before, filter, fault) ==
    LET page == IF is_previous_query(after, before)
                THEN paginated_find(c, options, before, "Previous", filter)
                ELSE paginated_find(c, options, after, "Next", filter)
    IN IF page.r = "Err" THEN Err(from_cursor_error(page.e))
       ELSE IF fault # "none" THEN Err(from_cursor_error(fault))
       ELSE page

\* the result of find
find_out(c, filter, sort, limit, after, before, skip, fault) ==
    query_cursor_find(c, find_options(sort, limit, skip), after, before,
                      IF filter = NoDoc THEN default_filter ELSE filter, fault)

\* the result of search
search_out(c, search_term, fields, sort, limit, after, before, skip, fault) ==
    query_cursor_find(c, find_options(sort, limit, skip), after, before,
                      search_filter(search_term, fields), fault)

find(filter, sort, limit, after, before, skip, fault) ==
    /\ pager.phase = "off"
    /\ resp = NoResp
    /\ resp' = [op |-> "find", filter |-> filter, sort |-> sort, limit |-> limit,
                after |-> after, before |-> before, skip |-> skip, fault |-> fault,
                out |-> find_out(coll, filter, sort, limit, after, before, skip, fault)]
    /\ pre' = coll
    /\ UNCHANGED <<coll, clock, oidCtr, uuidCtr, nops, idIn, wire, idOut, pager,
                   mock_time, spawned, calls, asked>>

search(search_term, fields, sort, limit, after, before, skip, fault) ==
    /\ pager.phase = "off"
    /\ resp = NoResp
    /\ resp' = [op |-> "search", filter |-> search_filter(search_term, fields),
                sort |-> sort, limit |-> limit,
                after |-> after, before |-> before, skip |-> skip, fault |-> fault,
                out |-> search_out(coll, search_term, fields, sort, limit, after, before,
                                   skip, fault)]
    /\ pre' = coll
    /\ UNCHANGED <<coll, clock, oidCtr, uuidCtr, nops, idIn, wire, idOut, pager,
                   mock_time, spawned, calls, asked>>

----------------------------------------------------------------------------
(* A client that pages forward with the returned cursor until there is no  *)
(* next page, then backward from the last page until there is no previous  *)
(* one.                                                                    *)

PageForward ==
    /\ pager.phase = "fwd"
    /\ LET after == IF pager.fwd = <<>> THEN NoToken
                    ELSE pager.fwd[Len(pager.fwd)].end_cursor
           out == find_out(coll, pager.filter, pager.sort, pager.limit, after, NoToken,
                           NoInt, "none")
       IN pager' = [pager EXCEPT
                       !.fwd = Append(@, out.val),
                       !.phase = IF out.val.has_next_page THEN "fwd"
                                 ELSE IF out.val.has_previous_page THEN "bwd"
                                 ELSE "done"]
    /\ UNCHANGED <<coll, clock, oidCtr, uuidCtr, nops, pre, resp, idIn, wire, idOut,
                   mock_time, spawned, calls, asked>>

PageBackward ==
    /\ pager.phase = "bwd"
    /\ LET cur == IF pager.bwd = <<>> THEN pager.fwd[Len(pager.fwd)]
                  ELSE pager.bwd[Len(pager.bwd)]
           out == find_out(coll, pager.filter, pager.sort, pager.limit, NoToken,
                           cur.start_cursor, NoInt, "none")
       IN pager' = [pager EXCEPT
                       !.bwd = Append(@, out.val),
                       !.phase = IF out.val.has_previous_page THEN "bwd" ELSE "done"]
    /\ UNCHANGED <<coll, clock, oidCtr, uuidCtr, nops, pre, resp, idIn, wire, idOut,
                   mock_time, spawned, calls, asked>>

----------------------------------------------------------------------------
(* SpecPage: find, search and the paging client over a collection that     *)
(* does not change.                                                        *)

\* documents in the collection that is paged through
MaxPageDocs == 3

PageNames == {"Ab", "a", "b"}
PageDoc(i, n) ==
    [_id |-> BI64(i), name |-> n, node |-> node_details(0, NoId),
     arrays |-> [f \in FieldPaths |-> <<>>]]
\* the collections: any documents 1..MaxPageDocs, each with a name
PageColls ==
    UNION {{{PageDoc(i, names[i]) : i \in ids} : names \in [ids -> PageNames]} :
           ids \in SUBSET (1..MaxPageDocs)}

PageFilters == {NoDoc, [kind |-> "name", name |-> "a"]}
PageSorts ==
    {NoDoc, [kind |-> "sort", field |-> "_id", dir |-> 0 - 1],
     [kind |-> "sort", field |-> "name", dir |-> 1],
     [kind |-> "sort", field |-> "name", dir |-> 0 - 1]}
PageLimits == {NoInt, 1, 2}
PageSkips == {NoInt, 1}
\* tokens that do not decode
BadTokens == {SomeToken(<<>>), SomeToken(<<0, 0>>)}
\* the cursor of a document that is no longer stored
StaleToken == SomeToken(<<2, MaxPageDocs + 1>>)
\* no token, a token that does not decode, the cursor of a stored document, or a
\* stale one
Tokens(c) ==
    {NoToken, SomeToken(<<>>), StaleToken} \cup {SomeToken(encode_cursor(d)) : d \in c}
\* the failures of the library's query
CursorFaults == {"IoError", "InvalidCursor", "Unknown", "InvalidId"}
SearchTerms == {<<"a">>, <<"B">>, <<"a", "b">>}
SearchFields == {<<"name">>, <<"Name">>, <<"nickName">>, <<"nickName", "Name">>}

PagerConfigs ==
    {[phase |-> "fwd", filter |-> f, sort |-> s, limit |-> l, fwd |-> <<>>, bwd |-> <<>>] :
        f \in PageFilters, s \in PageSorts, l \in PageLimits \ {NoInt}}

InitPage ==
    /\ coll \in PageColls
    /\ clock = 0
    /\ MockIdle
    /\ oidCtr = 0
    /\ uuidCtr = 0
    /\ nops = 0
    /\ pre = {}
    /\ resp = NoResp
    /\ IdIdle
    /\ pager \in {[phase |-> "off"]} \cup PagerConfigs

\* no call in progress and no paging client
PageIdle == resp = NoResp /\ pager.phase = "off"

NextPage ==
    \/ PageIdle /\
         \E filter \in PageFilters, sort \in PageSorts, limit \in PageLimits,
            after \in Tokens(coll), before \in Tokens(coll), skip \in PageSkips :
             find(filter, sort, limit, after, before, skip, "none")
    \/ PageIdle /\
         \E after \in {NoToken} \cup BadTokens, before \in {NoToken} \cup BadTokens,
            fault \in CursorFaults :
             find(NoDoc, NoDoc, NoInt, after, before, NoInt, fault)
    \/ PageIdle /\
         \E search_term \in SearchTerms, fields \in SearchFields,
            sort \in {NoDoc, [kind |-> "sort", field |-> "name", dir |-> 0 - 1]},
            limit \in {NoInt, 1}, after \in Tokens(coll), before \in Tokens(coll) :
             search(search_term, fields, sort, limit, after, before, NoInt, "none")
    \/ PageIdle /\
         \E fault \in CursorFaults :
             search(<<"a">>, <<"name">>, NoDoc, NoInt, NoToken, NoToken, NoInt, fault)
    \/ PageForward
    \/ PageBackward
    \/ Return

SpecPage == InitPage /\ [][NextPage]_vars

----------------------------------------------------------------------------
(* SpecRace: two callers whose calls interleave at the backend.  A call    *)
(* takes one step for each backend call it makes; the backend carries out  *)
(* each of its calls atomically.                                           *)

Procs == {1, 2}

\* the state of a caller that has made no call, the result of a call in progress
NoCall == [pc |-> "idle"]
NoOut == [r |-> "none"]

\* a caller calls an operation
Call(p, call) ==
    /\ calls[p] = NoCall
    /\ calls' = [calls EXCEPT ![p] = [pc |-> "called", call |-> call,
                                      timestamp |-> NoTime, out |-> NoOut,
                                      raced |-> FALSE, stored |-> FALSE]]
    /\ UNCHANGED <<coll, clock, oidCtr, uuidCtr, nops, pre, resp, idIn, wire, idOut, pager,
                   mock_time, spawned, asked>>

\* whether caller p is at step pc of operation op
At(p, op, pc) == calls[p].pc = pc /\ calls[p].call.op = op

\* insert_embedded up to its match on find_result: the find_one of the parent and
\* the reading of the clock
insert_embedded_find_one(p) ==
    /\ At(p, "insert_embedded", "called")
    /\ calls' = [calls EXCEPT ![p] =
                   IF insert_embedded_found(coll, calls[p].call.id)
                   THEN [@ EXCEPT !.pc = "found", !.timestamp = as_secs(now)]
                   ELSE [@ EXCEPT !.pc = "done", !.out = Err("NotFound")]]
    /\ UNCHANGED <<coll, clock, oidCtr, uuidCtr, nops, pre, resp, idIn, wire, idOut, pager,
                   mock_time, spawned, asked>>

\* insert_embedded from there: the fold and the update_one that appends; raced
\* records that the parent was gone by then, stored that the append changed the
\* collection
insert_embedded_update_one(p) ==
    /\ At(p, "insert_embedded", "found")
    /\ LET c == calls[p].call
           f == insert_embedded_fold(c.new_items, calls[p].timestamp, c.user_id, uuidCtr)
       IN /\ f.ctr <= MaxUuid
          /\ \A d \in coll_find_one(coll, to_bson(c.id)) :
                 Len(d.arrays[c.field_path]) + Len(f.members) <= MaxItems
          /\ coll' = IF f.panic THEN coll
                     ELSE coll_push(coll, to_bson(c.id), c.field_path, f.members, FALSE)
          /\ uuidCtr' = f.ctr
          /\ calls' = [calls EXCEPT ![p] =
                         [@ EXCEPT !.pc = "done",
                                   !.out = IF f.panic THEN Panic ELSE Ok(f.ids),
                                   !.raced = coll_find_one(coll, to_bson(c.id)) = {},
                                   !.stored = coll' # coll]]
    /\ UNCHANGED <<clock, oidCtr, nops, pre, resp, idIn, wire, idOut, pager,
                   mock_time, spawned, asked>>

\* delete_one_by_id: its one backend call
delete_one_by_id_call(p) ==
    /\ At(p, "delete_one_by_id", "called")
    /\ coll' = coll_delete_one(coll, to_bson(calls[p].call.id))
    /\ calls' = [calls EXCEPT ![p] =
                   [@ EXCEPT !.pc = "done",
                             !.out = delete_one_by_id_out(coll, calls[p].call.id)]]
    /\ UNCHANGED <<clock, oidCtr, uuidCtr, nops, pre, resp, idIn, wire, idOut, pager,
                   mock_time, spawned, asked>>

\* update_embedded up to its update_one: the serialization, the reading of the
\* clock and the positional $set
update_embedded_update_one(p) ==
    /\ At(p, "update_embedded", "called")
    /\ LET c == calls[p].call
           timestamp == as_secs(now)
       IN /\ coll' = update_embedded_coll(coll, c.id, c.field_path, c.embedded_id,
                                          c.update_item, timestamp, c.user_id)
          /\ calls' = [calls EXCEPT ![p] =
                         IF c.update_item.ser = "Doc"
                         THEN [@ EXCEPT !.pc = "updated", !.timestamp = timestamp]
                         ELSE [@ EXCEPT !.pc = "done",
                                        !.out = update_embedded_out(
                                                    coll, c.id, c.field_path, c.embedded_id,
                                                    c.update_item, timestamp, c.user_id)]]
    /\ UNCHANGED <<clock, oidCtr, uuidCtr, nops, pre, resp, idIn, wire, idOut, pager,
                   mock_time, spawned, asked>>

\* update_embedded from there: the find_one that reads the parent back
update_embedded_find_one(p) ==
    /\ At(p, "update_embedded", "updated")
    /\ LET res == coll_find_one(coll, to_bson(calls[p].call.id))
       IN calls' = [calls EXCEPT ![p] =
                      [@ EXCEPT !.pc = "done",
                                !.out = IF res = {} THEN Err("NotFound")
                                        ELSE Ok(CHOOSE d \in res : TRUE)]]
    /\ UNCHANGED <<coll, clock, oidCtr, uuidCtr, nops, pre, resp, idIn, wire, idOut, pager,
                   mock_time, spawned, asked>>

\* delete_embedded: its one backend call
delete_embedded_call(p) ==
    /\ At(p, "delete_embedded", "called")
    /\ LET c == calls[p].call
       IN /\ coll' = delete_embedded_coll(coll, c.id, c.field_path, c.embedded_id)
          /\ calls' = [calls EXCEPT ![p] =
                         [@ EXCEPT !.pc = "done", !.out = delete_embedded_out(c.embedded_id)]]
    /\ UNCHANGED <<clock, oidCtr, uuidCtr, nops, pre, resp, idIn, wire, idOut, pager,
                   mock_time, spawned, asked>>

\* time passes while the calls are under way
RaceTick ==
    /\ clock < MaxClock
    /\ clock' = clock + 1
    /\ UNCHANGED <<coll, oidCtr, uuidCtr, nops, pre, resp, idIn, wire, idOut, pager,
                   mock_time, spawned, calls, asked>>

\* the parent that the callers address, without embedded items and with two
RaceParent == IdString(<<"a">>)
RaceColl0 == insert_one_coll({}, 0, SerDoc(BString(<<"a">>), "a"), 0, NoId)
RaceColl2 ==
    insert_embedded_coll(RaceColl0, RaceParent, "items",
                         <<SerDoc(BString(<<"x">>), "a"), SerDoc(BString(<<"y">>), "a")>>,
                         0, UserA, 0)
RaceEmbIds == {IdString(<<"x">>), IdString(<<"y">>)}

\* the calls of the callers
InsertEmbeddedCalls ==
    {[op |-> "insert_embedded", id |-> RaceParent, field_path |-> "items",
      new_items |-> l, user_id |-> NoId] :
        l \in {<<SerDoc(NoField, "a")>>, <<SerDoc(BString(<<"z">>), "a")>>}}
DeleteOneCalls == {[op |-> "delete_one_by_id", id |-> RaceParent]}
UpdateEmbeddedCalls ==
    {[op |-> "update_embedded", id |-> RaceParent, field_path |-> "items",
      embedded_id |-> e, update_item |-> u, user_id |-> w] :
        e \in RaceEmbIds, w \in Updaters,
        u \in {SerErr, [ser |-> "Doc", name |-> "b"], [ser |-> "Doc", name |-> "c"]}}
DeleteEmbeddedCalls ==
    {[op |-> "delete_embedded", id |-> RaceParent, field_path |-> "items",
      embedded_id |-> e] : e \in RaceEmbIds}
RaceCalls ==
    InsertEmbeddedCalls \cup DeleteOneCalls \cup UpdateEmbeddedCalls \cup DeleteEmbeddedCalls

InitRace ==
    /\ coll \in {RaceColl0, RaceColl2}
    /\ pre = coll
    /\ clock = 0
    /\ mock_time = NoMock
    /\ spawned = <<>>
    /\ calls = [p \in Procs |-> NoCall]
    /\ asked = NoMock
    /\ oidCtr = 0
    /\ uuidCtr = 0
    /\ nops = 0
    /\ resp = NoResp
    /\ IdIdle
    /\ PagerIdle

NextRace ==
    \/ \E p \in Procs, call \in RaceCalls : Call(p, call)
    \/ \E p \in Procs : insert_embedded_find_one(p)
    \/ \E p \in Procs : insert_embedded_update_one(p)
    \/ \E p \in Procs : delete_one_by_id_call(p)
    \/ \E p \in Procs : update_embedded_update_one(p)
    \/ \E p \in Procs : update_embedded_find_one(p)
    \/ \E p \in Procs : delete_embedded_call(p)
    \/ RaceTick

SpecRace == InitRace /\ [][NextRace]_vars

----------------------------------------------------------------------------
(* SpecArr: one caller and the operations on the array fields of parents:  *)
(* insert_embedded, upsert_embedded, update_embedded and delete_embedded,   *)
(* on either array field, with items that bring an identifier, bring none, *)
(* bring null or bring one that ID does not take.                          *)

\* operations called in one behaviour of SpecArr, of SpecFault and of SpecClock
MaxArrOps == 2

\* a parent with two items and a tag, made by insert_one and insert_embedded
ArrColl ==
    insert_embedded_coll(RaceColl2, RaceParent, "tags", <<SerDoc(BString(<<"x">>), "a")>>,
                         0, NoId, 0)

\* the parents addressed: the one of ArrColl and one that only an upsert makes
ArrIds == {RaceParent, IdString(<<"b">>)}
\* the identifiers of embedded items addressed
ArrEmbIds == {IdString(<<"x">>), IdString(<<"y">>), IdString(GenUuid(1))}
\* the lists handed to insert_embedded
ArrLists ==
    {<<>>, <<SerDoc(NoField, "a")>>, <<SerDoc(BNull, "a")>>, <<SerDoc(BString(<<"x">>), "a")>>,
     <<SerDoc(BString(<<"x">>), "a"), SerDoc(BString(<<"x">>), "a")>>,
     <<SerDoc(BI32(2), "a")>>, <<SerErr, SerDoc(BString(<<"y">>), "a")>>, <<SerNonDoc>>}
\* the lists handed to upsert_embedded
ArrUpsertLists ==
    {<<SerDoc(NoField, "a")>>, <<SerDoc(BNull, "a")>>, <<SerDoc(BString(<<"x">>), "a")>>,
     <<SerDoc(BString(<<"x">>), "a"), SerDoc(NoField, "a")>>}
\* the parent handed to upsert_embedded: none, a document, and the failures
ArrParents == {NoParent, SerDoc(NoField, "b"), SerErr, SerNonDoc}

InitArr ==
    /\ coll \in {{}, RaceColl0, ArrColl}
    /\ clock = 0
    /\ MockIdle
    /\ oidCtr = 0
    /\ uuidCtr = 0
    /\ nops = 0
    /\ pre = {}
    /\ resp = NoResp
    /\ IdIdle
    /\ PagerIdle

CountedArr == nops < MaxArrOps /\ nops' = nops + 1

NextArr ==
    \/ \E id \in ArrIds, fp \in FieldPaths, new_items \in ArrLists :
           insert_embedded(id, fp, new_items, UserA) /\ CountedArr
    \/ \E id \in ArrIds, new_items \in ArrUpsertLists, parent \in ArrParents :
           upsert_embedded(id, "items", new_items, NoId, parent) /\ CountedArr
    \/ \E embedded_id \in ArrEmbIds :
           update_embedded(RaceParent, "items", embedded_id, [ser |-> "Doc", name |-> "b"],
                           UserB) /\ CountedArr
    \/ \E id \in ArrIds, fp \in FieldPaths, embedded_id \in ArrEmbIds :
           delete_embedded(id, fp, embedded_id) /\ CountedArr
    \/ Return

SpecArr == InitArr /\ [][NextArr]_vars

----------------------------------------------------------------------------
(* SpecFault: the operations with a backend that fails one of their calls. *)
(* A failing backend call returns Err(mongodb::error::Error) and changes    *)
(* nothing; the calls before it have taken effect.                         *)

\* the backend calls that an operation makes on a collection when none fails
backend_calls(c, call) ==
    CASE call.op = "insert_one" -> IF call.new_item.ser = "Doc" THEN 1 ELSE 0
      [] call.op = "insert_many" ->
             IF insert_many_fold(call.new_items, 0, call.user_id) # <<>> THEN 1 ELSE 0
      [] call.op = "find_one_by_id" -> 1
      [] call.op = "delete_one_by_id" -> 1
      [] call.op = "delete_embedded" -> 1
      [] call.op \in {"update_one", "update_embedded"} ->
             IF call.update_item.ser = "Doc" THEN 2 ELSE 0
      [] call.op = "insert_embedded" ->
             IF /\ insert_embedded_found(c, call.id)
                /\ ~insert_embedded_fold(call.new_items, 0, call.user_id, 0).panic
             THEN 2 ELSE 1
      [] call.op = "upsert_embedded" ->
             IF /\ ~upsert_embedded_fold(call.new_items, 0, call.user_id, 0).panic
                /\ call.parent.ser # "Err"
             THEN 1 ELSE 0

\* the collection after a call whose which-th backend call fails: update_one and
\* update_embedded have updated before the find_one that reads the document back
failing_coll(c, call, which, timestamp) ==
    IF call.op = "update_one" /\ which = 2
    THEN update_one_coll(c, call.id, call.update_item, timestamp, call.user_id)
    ELSE IF call.op = "update_embedded" /\ which = 2
    THEN update_embedded_coll(c, call.id, call.field_path, call.embedded_id,
                              call.update_item, timestamp, call.user_id)
    ELSE c

\* the result of a call whose which-th backend call fails: the error goes through
\* From<mongodb::error::Error> wherever the call is followed by "?" or matched, and
\* insert_embedded unwraps the result of its find_one
failing_out(call, which) ==
    IF call.op = "insert_embedded" /\ which = 1 THEN Panic ELSE Err("MongoError")

\* the uuids drawn by a call whose which-th backend call fails
failing_uuids(call, which, ctr) ==
    IF call.op = "insert_embedded" /\ which = 2
    THEN insert_embedded_fold(call.new_items, 0, call.user_id, ctr).ctr
    ELSE IF call.op = "upsert_embedded"
    THEN upsert_embedded_fold(call.new_items, 0, call.user_id, ctr).ctr
    ELSE ctr

\* an operation is called and the backend fails the which-th of its calls
failing(call, which) ==
    /\ resp = NoResp
    /\ which \in 1..backend_calls(coll, call)
    /\ failing_uuids(call, which, uuidCtr) <= MaxUuid
    /\ coll' = failing_coll(coll, call, which, as_secs(now))
    /\ uuidCtr' = failing_uuids(call, which, uuidCtr)
    /\ resp' = [op |-> call.op, call |-> call, failed |-> which,
                out |-> failing_out(call, which)]
    /\ pre' = coll
    /\ UNCHANGED <<clock, oidCtr, idIn, wire, idOut, pager, mock_time, spawned, calls, asked>>

\* the calls made while the backend fails
FaultCalls ==
    {[op |-> "insert_one", new_item |-> i, user_id |-> NoId] :
         i \in {SerErr, SerDoc(NoField, "a"), SerDoc(BString(<<"a">>), "a")}}
    \cup {[op |-> "insert_many", new_items |-> l, user_id |-> NoId] :
              l \in {<<SerErr>>, <<SerNonDoc, SerDoc(NoField, "a")>>}}
    \cup {[op |-> o, id |-> i] : o \in {"find_one_by_id", "delete_one_by_id"}, i \in ArrIds}
    \cup {[op |-> "update_one", id |-> i, update_item |-> u, user_id |-> UserB] :
              i \in ArrIds, u \in {SerNonDoc, [ser |-> "Doc", name |-> "b"]}}
    \cup {[op |-> "insert_embedded", id |-> i, field_path |-> "items", new_items |-> l,
           user_id |-> NoId] :
              i \in ArrIds, l \in {<<>>, <<SerDoc(NoField, "a")>>, <<SerDoc(BI32(2), "a")>>}}
    \cup {[op |-> "upsert_embedded", id |-> i, field_path |-> "items", new_items |-> l,
           user_id |-> NoId, parent |-> q] :
              i \in ArrIds, l \in {<<SerDoc(NoField, "a")>>, <<SerDoc(BNull, "a")>>},
              q \in {NoParent, SerErr}}
    \cup {[op |-> "update_embedded", id |-> i, field_path |-> "items", embedded_id |-> e,
           update_item |-> u, user_id |-> UserB] :
              i \in ArrIds, e \in {IdString(<<"x">>)},
              u \in {SerErr, [ser |-> "Doc", name |-> "b"]}}
    \cup {[op |-> "delete_embedded", id |-> i, field_path |-> "items", embedded_id |-> e] :
              i \in ArrIds, e \in {IdString(<<"x">>)}}

NextFault ==
    \/ \E call \in FaultCalls, which \in {1, 2} : failing(call, which) /\ CountedArr
    \/ \E new_item \in ParentItems : insert_one(new_item, NoId) /\ CountedArr
    \/ \E id \in ArrIds, u \in {[ser |-> "Doc", name |-> "c"]} :
           update_one(id, u, UserB) /\ CountedArr
    \/ \E id \in ArrIds, new_items \in ArrUpsertLists :
           insert_embedded(id, "items", new_items, UserA) /\ CountedArr
    \/ Tick
    \/ Return

SpecFault == InitArr /\ [][NextFault]_vars

----------------------------------------------------------------------------
(* SpecMany: insert_many and insert_one over a collection that starts      *)
(* empty.                                                                  *)

\* the batches: empty, items that fail to serialize, items with and without an
\* identifier of their own, the same identifier twice
ManyItems ==
    {SerErr, SerNonDoc, SerDoc(NoField, "a"), SerDoc(BNull, "a"), SerDoc(BString(<<"a">>), "a"),
     SerDoc(BString(<<"b">>), "b"), SerDoc(BI64(1), "a"), SerDoc(BI32(2), "a")}
ManyLists ==
    {<<>>} \cup {<<i>> : i \in ManyItems}
           \cup {<<i, j>> : i \in {SerErr, SerDoc(NoField, "a"), SerDoc(BString(<<"a">>), "a")},
                           j \in {SerNonDoc, SerDoc(NoField, "b"), SerDoc(BString(<<"a">>), "a"),
                                  SerDoc(BString(<<"b">>), "b")}}

NextMany ==
    \/ \E new_items \in ManyLists, user_id \in Creators :
           insert_many(new_items, user_id) /\ Counted
    \/ \E new_item \in {SerDoc(BString(<<"a">>), "a"), SerDoc(NoField, "a")} :
           insert_one(new_item, NoId) /\ Counted
    \/ Tick
    \/ Return

SpecMany == Init /\ [][NextMany]_vars

----------------------------------------------------------------------------
(* SpecClock: the operations that stamp node blocks, in the test build,    *)
(* whose clock the caller sets, advances and clears between them.          *)

NextClock ==
    \/ insert_one(SerDoc(BString(<<"a">>), "a"), UserA) /\ CountedArr
    \/ insert_many(<<SerDoc(BString(<<"b">>), "b")>>, UserA) /\ CountedArr
    \/ update_one(RaceParent, [ser |-> "Doc", name |-> "b"], UserB) /\ CountedArr
    \/ insert_embedded(RaceParent, "items", <<SerDoc(BString(<<"x">>), "a")>>, UserA) /\ CountedArr
    \/ upsert_embedded(RaceParent, "items", <<SerDoc(NoField, "a")>>, UserA, NoParent) /\ CountedArr
    \/ update_embedded(RaceParent, "items", IdString(<<"x">>), [ser |-> "Doc", name |-> "b"],
                       UserB) /\ CountedArr
    \/ \E time \in {0, MaxClock} : resp = NoResp /\ set_mock_time(time)
    \/ resp = NoResp /\ increase_mock_time(1)
    \/ resp = NoResp /\ clear_mock_time
    \/ \E k \in 1..MaxSpawned : run_spawned(k)
    \/ Tick
    \/ Return

SpecClock == Init /\ [][NextClock]_vars

----------------------------------------------------------------------------
(* SpecMock: the caller of the mock clock sets, advances, clears and reads *)
(* it, while the closures that the setters spawned run when they come to.  *)

NextMock ==
    \/ \E time \in 0..MaxClock : resp = NoResp /\ set_mock_time(time)
    \/ \E millis \in {1, 2} : resp = NoResp /\ increase_mock_time(millis)
    \/ resp = NoResp /\ clear_mock_time
    \/ \E k \in 1..MaxSpawned : run_spawned(k)
    \/ now_call
    \/ Tick
    \/ Return

SpecMock == Init /\ [][NextMock]_vars

----------------------------------------------------------------------------
(* The claims.                                                             *)

\* the documents of a collection that a filter on { _id: id } matches
Matched(c, id) == {d \in c : BsonEq(d._id, to_bson(id))}

\* C1: delete_one_by_id(X) on a collection that holds X removes exactly that
\* document and returns {id: X, success: true}; on a collection that does not hold X
\* (as after a first delete of X) it returns Ok({id: X, success: false}) and leaves
\* the collection as it was.
C1_DeleteOneById ==
    resp.op = "delete_one_by_id" =>
        IF Matched(pre, resp.id) # {}
        THEN /\ Cardinality(Matched(pre, resp.id)) = 1
             /\ coll = pre \ Matched(pre, resp.id)
             /\ resp.out = Ok([id |-> resp.id, success |-> TRUE])
        ELSE /\ coll = pre
             /\ resp.out = Ok([id |-> resp.id, success |-> FALSE])

\* C1 witness: three operations, the first generated ObjectId 1 and the third is a
\* delete of it that finds nothing: insert, delete, and the delete repeated.
C1_Witness ==
    /\ resp.op = "delete_one_by_id"
    /\ resp.id = IdObjectId(GenOid(1))
    /\ oidCtr = 1
    /\ nops = 3
    /\ resp.out = Ok([id |-> resp.id, success |-> FALSE])
    /\ coll = {}

\* C6: insert_one(item, actor) returns an identifier X such that find_one_by_id(X)
\* right afterwards finds the inserted entity, with date_created = date_modified and
\* created_by_id = updated_by_id, both the actor when given and both absent when not.
C6_InsertThenFind ==
    (resp.op = "insert_one" /\ resp.out.r = "Ok") =>
        LET found == find_one_by_id(coll, resp.out.val)
        IN /\ Cardinality(found) = 1
           /\ \A d \in found :
                /\ d \notin pre
                /\ d.name = resp.new_item.name
                /\ d.node.date_created = d.node.date_modified
                /\ d.node.date_created = as_secs(clock)
                /\ d.node.created_by_id = d.node.updated_by_id
                /\ d.node.created_by_id =
                       IF resp.user_id = NoId THEN NoField ELSE to_bson(resp.user_id)

\* C6 witness: an item without identifier inserted by an actor, found under the
\* ObjectId that the backend generated.
C6_Witness ==
    /\ resp.op = "insert_one"
    /\ resp.user_id = UserA
    /\ resp.new_item.ser = "Doc"
    /\ resp.new_item._id = NoField
    /\ resp.out = Ok(IdObjectId(GenOid(1)))
    /\ find_one_by_id(coll, resp.out.val) # {}

\* the case of C5: update_one with a partial that serializes to a document, on a
\* stored document
C5_Case ==
    /\ resp.op = "update_one"
    /\ resp.update_item.ser = "Doc"
    /\ Matched(pre, resp.id) # {}

\* C5 as stated: the returned date_modified is strictly greater than the one before.
C5_StrictlyGreater ==
    C5_Case =>
        /\ resp.out.r = "Ok"
        /\ \A x \in Matched(pre, resp.id) :
             /\ resp.out.val.node.date_modified > x.node.date_modified
             /\ resp.out.val.node.date_created = x.node.date_created
             /\ resp.out.val.node.created_by_id = x.node.created_by_id
             /\ resp.update_item.name # NoVal => resp.out.val.name = resp.update_item.name

\* C5 amended: update_one on a stored document returns the entity with date_modified
\* set to the reading of now() in whole seconds (equal to the old one when both
\* stamps fall into the same second), date_created and created_by_id unchanged, and
\* the fields named in the partial set to the new values.
C5_UpdateOne ==
    C5_Case =>
        /\ resp.out.r = "Ok"
        /\ resp.out.val \in coll
        /\ \A x \in Matched(pre, resp.id) :
             /\ resp.out.val._id = x._id
             /\ resp.out.val.node.date_modified = as_secs(clock)
             /\ resp.out.val.node.date_created = x.node.date_created
             /\ resp.out.val.node.created_by_id = x.node.created_by_id
             /\ resp.update_item.name # NoVal => resp.out.val.name = resp.update_item.name

\* C5 witness: an update that renames a document a second or more after its insert.
C5_Witness ==
    /\ C5_Case
    /\ resp.out.r = "Ok"
    /\ resp.out.val.name = "b"
    /\ \E x \in Matched(pre, resp.id) :
         /\ x.name = "a"
         /\ resp.out.val.node.date_modified > x.node.date_modified
         /\ resp.out.val.node.date_created = x.node.date_created

\* the positions of an array that differ between two versions of a document
Changed(d, e, f) ==
    {k \in 1..Len(d.arrays[f]) : k > Len(e.arrays[f]) \/ e.arrays[f][k] # d.arrays[f][k]}

\* C2: update_embedded changes nothing but one element of the named array of the
\* addressed parent, an element whose id is the given embedded id: every sibling
\* element and every other document are the same before and after the call.
C2_UpdateEmbeddedFrame ==
    resp.op = "update_embedded" =>
        /\ Cardinality(coll) = Cardinality(pre)
        /\ \A d \in pre : \E e \in coll :
             /\ e._id = d._id
             /\ e.name = d.name
             /\ e.node = d.node
             /\ \A f \in FieldPaths :
                  /\ Len(e.arrays[f]) = Len(d.arrays[f])
                  /\ Cardinality(Changed(d, e, f)) <= 1
                  /\ \A k \in Changed(d, e, f) :
                       /\ BsonEq(d._id, to_bson(resp.id))
                       /\ f = resp.field_path
                       /\ BsonEq(d.arrays[f][k]._id, to_bson(resp.embedded_id))
                       /\ e.arrays[f][k]._id = d.arrays[f][k]._id

\* C2 witness: update_embedded has changed one element of an array of two or more.
C2_Witness ==
    /\ resp.op = "update_embedded"
    /\ \E d \in pre : \E e \in coll :
         /\ e._id = d._id
         /\ Len(d.arrays[resp.field_path]) >= 2
         /\ Changed(d, e, resp.field_path) # {}

\* C3: insert_embedded called with a parent id that is not in the collection fails
\* with NotFound and leaves the collection unchanged.
C3_InsertEmbeddedMissingParent ==
    (resp.op = "insert_embedded" /\ Matched(pre, resp.id) = {}) =>
        /\ resp.out = Err("NotFound")
        /\ coll = pre

\* C3 witness: insert_embedded of a document item under a missing parent, while
\* another document is stored, has failed with NotFound.
C3_Witness ==
    /\ resp.op = "insert_embedded"
    /\ Matched(pre, resp.id) = {}
    /\ pre # {}
    /\ \E k \in 1..Len(resp.new_items) : resp.new_items[k].ser = "Doc"
    /\ resp.out = Err("NotFound")

\* C4: update_embedded fails with NotFound whenever no element of the parent's
\* array has the given embedded id, also when the parent exists, and then changes
\* nothing.
C4_UpdateEmbeddedNotFound ==
    (/\ resp.op = "update_embedded"
     /\ resp.update_item.ser = "Doc"
     /\ \A d \in Matched(pre, resp.id) :
          embedded_matches(d.arrays[resp.field_path], to_bson(resp.embedded_id)) = {})
    => (resp.out = Err("NotFound") /\ coll = pre)

\* a string that is the marker followed by the hex form of an ObjectId, in either case
HexDigits == {HexChars[k] : k \in 1..16} \cup {UpperHexChars[k] : k \in 1..16}
MarkedOid(s) ==
    /\ Len(s) = Len(OidPrefix) + 2 * OidBytes
    /\ \A k \in 1..Len(s) :
         IF k <= Len(OidPrefix) THEN s[k] = OidPrefix[k] ELSE s[k] \in HexDigits

\* C7 as stated: every ID of every variant comes back from its string as itself.
C7_RoundTripAll == idOut # NoId => idOut = idIn

\* C7 amended: an ObjectId comes back as itself, and so does a String unless it is
\* the marker "$oid:" followed by the hex digits of an ObjectId (that one comes back
\* as the ObjectId); a String that looks like a bare hex id stays a String; an I64
\* comes back as the String of its decimal digits, never as an I64.
C7_RoundTrip ==
    idOut # NoId =>
        CASE idIn.tag = "ObjectId" -> idOut = idIn
          [] idIn.tag = "String" ->
                IF MarkedOid(idIn.s)
                THEN idOut.tag = "ObjectId" /\ Len(idOut.oid) = OidBytes
                ELSE idOut = idIn
          [] idIn.tag = "I64" ->
                /\ idOut.tag = "String"
                /\ idOut.s = i64_to_string(idIn.i)

\* C7 witness: a String that looks like a native id, without the marker, has made
\* the round trip and is still that String.
C7_Witness ==
    /\ idIn.tag = "String"
    /\ oid_parse_ok(idIn.s)
    /\ idOut = idIn

\* a cursor was given and does not decode
Malformed(cursor) == cursor.some /\ ~cursor_ok(cursor.tok)

\* the call that has just returned is a find or a search
Paged == resp.op \in {"find", "search"}

\* the options the call ran with
PagedOptions == find_options(resp.sort, resp.limit, resp.skip)

\* the matching documents on the side of the cursor a scan starts from: after the
\* cursor going forward, before it going backward, all of them without a cursor
Side(forward, cursor) ==
    {d \in coll :
        /\ Matches(d, resp.filter)
        /\ cursor.some =>
             IF forward THEN Before(decode_cursor(cursor.tok), d, PagedOptions.sort)
                        ELSE Before(d, decode_cursor(cursor.tok), PagedOptions.sort)}

\* how many documents of S a scan meets before d
ScanRank(S, forward, d) ==
    Cardinality({x \in S : IF forward THEN Before(x, d, PagedOptions.sort)
                                      ELSE Before(d, x, PagedOptions.sort)})

\* the documents a scan of S returns after its skip and within its limit
Window(S, forward) ==
    {d \in S : /\ ScanRank(S, forward, d) >= PagedOptions.skip
               /\ ScanRank(S, forward, d) < PagedOptions.skip + PagedOptions.limit}

\* C8: in find and search the two cursors alone decide the direction: with after
\* given, or with neither, the page is the window of the forward scan from after;
\* with before alone it is the window of the backward scan from before; either
\* way the items come in the requested sort order, and a page comes only from a
\* cursor that decodes.
C8_Direction ==
    (Paged /\ resp.out.r = "Ok") =>
        LET forward == resp.after.some \/ ~resp.before.some
            cursor == IF forward THEN resp.after ELSE resp.before
            items == resp.out.val.items
            expected == Window(Side(forward, cursor), forward)
        IN /\ ~Malformed(cursor)
           /\ {items[k] : k \in 1..Len(items)} = expected
           /\ Len(items) = Cardinality(expected)
           /\ \A j, k \in 1..Len(items) :
                  j < k => Before(items[j], items[k], PagedOptions.sort)

\* a backward page of two items with more before it, under a descending sort
C8_Witness ==
    /\ Paged
    /\ resp.out.r = "Ok"
    /\ resp.before.some
    /\ ~resp.after.some
    /\ PagedOptions.sort.dir = 0 - 1
    /\ Len(resp.out.val.items) = 2
    /\ resp.out.val.has_previous_page

\* a forward page taken with both cursors given
C8_WitnessBoth ==
    /\ Paged
    /\ resp.out.r = "Ok"
    /\ resp.before.some
    /\ resp.after.some
    /\ Len(resp.out.val.items) >= 1

RECURSIVE Flatten(_)
Flatten(pages) ==
    IF pages = <<>> THEN <<>> ELSE pages[1].items \o Flatten(Tail(pages))

C10_AnyMalformed ==
    (Paged /\ (Malformed(resp.after) \/ Malformed(resp.before))) =>
        resp.out = Err("InvalidCursor")

\* C10: a malformed token in the cursor that governs the query (after when it is
\* given, before otherwise) fails the call with InvalidCursor and no page; a
\* failure of the cursor library of kind InvalidCursor, InvalidId or Unknown
\* comes out as InvalidCursor, one of kind IoError as IoError.
C10_InvalidCursor ==
    Paged =>
        LET governing == IF resp.after.some THEN resp.after ELSE resp.before
        IN /\ Malformed(governing) => resp.out = Err("InvalidCursor")
           /\ (~Malformed(governing) /\ resp.fault \in {"InvalidCursor", "InvalidId", "Unknown"})
                  => resp.out = Err("InvalidCursor")
           /\ (~Malformed(governing) /\ resp.fault = "IoError") => resp.out = Err("IoError")
           /\ (~Malformed(governing) /\ resp.fault = "none") => resp.out.r = "Ok"

\* a call with a malformed before alone is refused
C10_Witness ==
    /\ Paged
    /\ ~resp.after.some
    /\ Malformed(resp.before)
    /\ resp.out = Err("InvalidCursor")

\* the library failed with Unknown and the call came out as InvalidCursor
C10_WitnessUnknown ==
    /\ Paged
    /\ resp.fault = "Unknown"
    /\ ~Malformed(resp.after)
    /\ ~Malformed(resp.before)
    /\ resp.out = Err("InvalidCursor")

\* caller p's insert_embedded has returned, and the parent that its find_one had
\* found was gone when its update_one ran
Raced(p) == At(p, "insert_embedded", "done") /\ calls[p].raced

\* some document of the collection holds an embedded item with identifier i
Holds(c, i) ==
    \E d \in c, f \in FieldPaths :
        \E k \in 1..Len(d.arrays[f]) : BsonEq(d.arrays[f][k]._id, to_bson(i))

\* C11 as stated: when the parent is deleted between the existence check and the
\* append, insert_embedded returns the item identifiers and the appended items
\* are stored although the parent is gone.
C11_OrphanedWrite ==
    \A p \in Procs :
        Raced(p) =>
            /\ calls[p].out.r = "Ok"
            /\ \A k \in 1..Len(calls[p].out.val) : Holds(coll, calls[p].out.val[k])

\* C11: when the parent is deleted between the existence check and the append,
\* insert_embedded returns the item identifiers without an error, and the append
\* matches no document: the collection is as the deletion left it and no
\* document holds the items whose identifiers were returned.
C11_LostAppend ==
    \A p \in Procs :
        Raced(p) =>
            /\ calls[p].out.r = "Ok"
            /\ Len(calls[p].out.val) = Len(calls[p].call.new_items)
            /\ ~calls[p].stored
            /\ coll_find_one(coll, to_bson(calls[p].call.id)) = {}
            /\ \A k \in 1..Len(calls[p].out.val) : ~Holds(coll, calls[p].out.val[k])

\* an insert_embedded of one item has returned its identifier after the parent
\* was deleted under it
C11_Witness ==
    \E p \in Procs :
        /\ Raced(p)
        /\ calls[p].out.r = "Ok"
        /\ Len(calls[p].out.val) = 1
        /\ \E q \in Procs : At(q, "delete_one_by_id", "done") /\ calls[q].out.val.success

\* an embedded item after the change that a call makes to it, if it is the call's
OwnChange(e, p) ==
    LET c == calls[p].call
    IN IF c.op = "update_embedded" /\ BsonEq(e._id, to_bson(c.embedded_id))
       THEN [e EXCEPT !.name = c.update_item.name,
                      !.node.date_modified = calls[p].timestamp,
                      !.node.updated_by_id = IF c.user_id = NoId THEN @
                                             ELSE to_bson(c.user_id)]
       ELSE e

\* whether a call leaves an embedded item in the array
Kept(e, p) ==
    ~(calls[p].call.op = "delete_embedded"
        /\ BsonEq(e._id, to_bson(calls[p].call.embedded_id)))

\* callers p and q have both returned: p from an update_embedded that reached the
\* backend, q from an update_embedded or a delete_embedded on another embedded id
Disjoint(p, q) ==
    /\ p # q
    /\ At(p, "update_embedded", "done")
    /\ calls[p].call.update_item.ser = "Doc"
    /\ \/ At(q, "update_embedded", "done") /\ calls[q].call.update_item.ser = "Doc"
       \/ At(q, "delete_embedded", "done")
    /\ calls[p].call.embedded_id # calls[q].call.embedded_id

\* C12: two update_embedded calls, or an update_embedded and a delete_embedded,
\* that run concurrently on one parent and field but on different embedded ids
\* do not interfere: however their backend calls interleave, the array ends as
\* the array they found with each element changed by its own call only (its
\* fields, date_modified and updated_by_id set, or the element removed), the
\* other elements as they were and in their order.
C12_DisjointEmbedded ==
    \A p, q \in Procs :
        Disjoint(p, q) =>
            \A d \in coll :
                \E d0 \in pre :
                    /\ d0._id = d._id
                    /\ d.arrays["items"] =
                         SelectSeq([k \in 1..Len(d0.arrays["items"]) |->
                                       OwnChange(OwnChange(d0.arrays["items"][k], p), q)],
                                   LAMBDA e : Kept(e, p) /\ Kept(e, q))

\* two updates on different items have returned, at different times, and the
\* first caller read the parent back with the second caller's change in it
C12_Witness ==
    \E p, q \in Procs :
        /\ Disjoint(p, q)
        /\ calls[q].call.op = "update_embedded"
        /\ calls[p].timestamp # calls[q].timestamp
        /\ calls[p].out.r = "Ok"
        /\ \E k \in 1..Len(calls[p].out.val.arrays["items"]) :
               /\ BsonEq(calls[p].out.val.arrays["items"][k]._id,
                         to_bson(calls[q].call.embedded_id))
               /\ calls[p].out.val.arrays["items"][k].name = calls[q].call.update_item.name

\* an update and a delete on different items have both returned
C12_WitnessDelete ==
    \E p, q \in Procs :
        /\ Disjoint(p, q)
        /\ calls[q].call.op = "delete_embedded"
        /\ \E d \in coll : Len(d.arrays["items"]) = 1

\* the elements of an array whose _id is not w, in their order
Others(arr, w) == SelectSeq(arr, LAMBDA m : ~BsonEq(m._id, w))

\* an array holds an element whose _id is w
HasItem(arr, w) == \E k \in 1..Len(arr) : BsonEq(arr[k]._id, w)

\* C13: delete_embedded(parent, field, E) returns {id: E, success: true} whether or
\* not the parent or a matching element existed; afterwards the array of the
\* parent holds no element with identifier E, and its other elements are as they
\* were and in the order they had.
C13_DeleteEmbedded ==
    resp.op = "delete_embedded" =>
        LET w == to_bson(resp.embedded_id)
        IN /\ resp.out = Ok([id |-> resp.embedded_id, success |-> TRUE])
           /\ Cardinality(Matched(coll, resp.id)) = Cardinality(Matched(pre, resp.id))
           /\ \A d \in Matched(coll, resp.id) : ~HasItem(d.arrays[resp.field_path], w)
           /\ \A d \in Matched(pre, resp.id) :
                  \E e \in Matched(coll, resp.id) :
                      e.arrays[resp.field_path] = Others(d.arrays[resp.field_path], w)

\* a delete_embedded has removed every element with the identifier from an array
\* that held it twice
C13_Witness ==
    /\ resp.op = "delete_embedded"
    /\ resp.out.val.success
    /\ \E d \in Matched(pre, resp.id) :
           LET arr == d.arrays[resp.field_path]
           IN \E j, k \in 1..Len(arr) :
                  /\ j < k
                  /\ BsonEq(arr[j]._id, to_bson(resp.embedded_id))
                  /\ BsonEq(arr[k]._id, to_bson(resp.embedded_id))
    /\ \A d \in Matched(coll, resp.id) :
           ~HasItem(d.arrays[resp.field_path], to_bson(resp.embedded_id))

\* a delete_embedded has reported success for a parent that does not exist
C13_WitnessNoParent ==
    /\ resp.op = "delete_embedded"
    /\ resp.out.val.success
    /\ Matched(pre, resp.id) = {}
    /\ coll = pre

\* C14: whenever a backend call of an operation fails, the operation returns a
\* typed ServiceError: it neither returns Ok nor panics.
C14_BackendFailureTyped ==
    "failed" \in DOMAIN resp =>
        /\ resp.out.r = "Err"
        /\ resp.out.e \in {"MongoError", "NotFound", "ParseError", "Unknown", "InvalidCursor"}

\* the failures of backend calls that come back as MongoError
C14_Propagated ==
    ("failed" \in DOMAIN resp /\ ~(resp.op = "insert_embedded" /\ resp.failed = 1)) =>
        resp.out = Err("MongoError")

\* the items of a batch that serialize to a document
Serialized(new_items) == SelectSeq(new_items, LAMBDA i : i.ser = "Doc")

\* C15: insert_many skips the items that do not serialize to a document; when the
\* backend has inserted every other item of the batch, the call returns one
\* identifier per inserted item, the identifiers of the inserted documents, and
\* every inserted document has a node block with date_created = date_modified
\* and created_by_id = updated_by_id.
C15_InsertMany ==
    (/\ resp.op = "insert_many"
     /\ Serialized(resp.new_items) # <<>>
     /\ pre \subseteq coll
     /\ Cardinality(coll \ pre) = Len(Serialized(resp.new_items))) =>
        /\ resp.out.r = "Ok"
        /\ Len(resp.out.val) = Cardinality(coll \ pre)
        /\ {to_bson(resp.out.val[k]) : k \in 1..Len(resp.out.val)} =
               {d._id : d \in coll \ pre}
        /\ \A d \in coll \ pre :
               /\ d.node.date_created = d.node.date_modified
               /\ d.node.created_by_id = d.node.updated_by_id

\* an insert_many of a batch with an item that does not serialize has inserted the
\* other item and has not returned its identifier
C15_Reached ==
    /\ resp.op = "insert_many"
    /\ Len(Serialized(resp.new_items)) < Len(resp.new_items)
    /\ Cardinality(coll \ pre) = Len(Serialized(resp.new_items))
    /\ Cardinality(coll \ pre) > 0

\* C16: in every reachable state the identifiers of the elements stored in one
\* array field of one parent are pairwise distinct.
C16_EmbeddedIdsDistinct ==
    \A d \in coll, f \in FieldPaths :
        \A j, k \in 1..Len(d.arrays[f]) :
            BsonEq(d.arrays[f][j]._id, d.arrays[f][k]._id) => j = k

\* the node blocks of a document: its own, if it has one, and those of its
\* embedded items
Nodes(d) ==
    (IF d.node = NoNode THEN {} ELSE {d.node})
    \cup UNION {{d.arrays[f][k].node : k \in 1..Len(d.arrays[f])} : f \in FieldPaths}

\* C17: in every reachable state every stored record and every embedded item that
\* carries a node block has date_modified >= date_created.
C17_ModifiedNotBeforeCreated ==
    \A d \in coll : \A n \in Nodes(d) : n.date_modified >= n.date_created

\* C17, second part: an operation leaves the date_created and the created_by_id of
\* every record and every embedded item that existed before it as they were.
C17_CreationKept ==
    resp.op \in {"insert_one", "insert_many", "update_one", "insert_embedded",
                 "upsert_embedded", "update_embedded"} =>
        \A d \in pre :
            \E e \in coll :
                /\ e._id = d._id
                /\ e.node.date_created = d.node.date_created
                /\ e.node.created_by_id = d.node.created_by_id
                /\ \A f \in FieldPaths :
                       /\ Len(e.arrays[f]) >= Len(d.arrays[f])
                       /\ \A k \in 1..Len(d.arrays[f]) :
                              /\ e.arrays[f][k].node.date_created =
                                     d.arrays[f][k].node.date_created
                              /\ e.arrays[f][k].node.created_by_id =
                                     d.arrays[f][k].node.created_by_id

\* the array field that the last call names, in the parent it addresses: as the
\* call found it and as it left it
ArrayBefore ==
    IF Matched(pre, resp.id) = {} THEN <<>>
    ELSE (CHOOSE d \in Matched(pre, resp.id) : TRUE).arrays[resp.field_path]
ArrayAfter ==
    IF Matched(coll, resp.id) = {} THEN <<>>
    ELSE (CHOOSE d \in Matched(coll, resp.id) : TRUE).arrays[resp.field_path]

\* the last call is an insert_embedded on a parent that exists, or an
\* upsert_embedded whose parent argument, if any, serializes
Appends ==
    \/ resp.op = "insert_embedded" /\ Matched(pre, resp.id) # {}
    \/ resp.op = "upsert_embedded" /\ resp.parent.ser \in {"None", "Doc"}

\* C18: insert_embedded and upsert_embedded append one element for every item that
\* serializes to a document, each with a node block and an identifier: the item's
\* own when it brings one, a fresh string when its identifier is absent or null;
\* the call returns the identifiers of the appended elements in their order.
C18_AppendedItems ==
    Appends =>
        LET items == Serialized(resp.new_items)
            n == Len(ArrayBefore)
        IN /\ resp.out.r = "Ok"
           /\ Len(resp.out.val) = Len(items)
           /\ Len(ArrayAfter) = n + Len(items)
           /\ SubSeq(ArrayAfter, 1, n) = ArrayBefore
           /\ \A k \in 1..Len(items) :
                  LET e == ArrayAfter[n + k]
                  IN /\ e.node.date_created # NoTime
                     /\ e.node.date_modified = e.node.date_created
                     /\ e._id = to_bson(resp.out.val[k])
                     /\ IF items[k]._id \in {NoField, BNull}
                        THEN /\ e._id.b = "String"
                             /\ ~HasItem(ArrayBefore, e._id)
                             /\ \A j \in 1..Len(items) :
                                    j # k => ~BsonEq(ArrayAfter[n + j]._id, e._id)
                        ELSE e._id = items[k]._id

\* an upsert_embedded of an item whose identifier is null has ended
C18_UpsertNull ==
    /\ resp.op = "upsert_embedded"
    /\ resp.parent.ser \in {"None", "Doc"}
    /\ \E k \in 1..Len(resp.new_items) :
           resp.new_items[k].ser = "Doc" /\ resp.new_items[k]._id = BNull

\* C19: insert_one of an item that serializes to a document ends with Ok and the
\* identifier that the backend stored the document under, or with Err and nothing
\* stored; it does not abort.
C19_InsertOneTyped ==
    (resp.op = "insert_one" /\ resp.new_item.ser = "Doc") =>
        \/ /\ resp.out.r = "Ok"
           /\ \E d \in coll \ pre : d._id = to_bson(resp.out.val)
        \/ /\ resp.out.r = "Err"
           /\ coll = pre

\* an insert_one has stored a document under an identifier that ID does not take
C19_StoredThenAborted ==
    /\ resp.op = "insert_one"
    /\ resp.out.r = "Panic"
    /\ \E d \in coll \ pre : ~with_bson_ok(d._id)

\* C20: insert_embedded, upsert_embedded on a parent that exists, and
\* delete_embedded leave every document as it was but for the named array field
\* of the addressed parent: its node block, its other fields, its other array
\* fields and all other documents are the same before and after the call.
C20_EmbeddedFrame ==
    (\/ resp.op \in {"insert_embedded", "delete_embedded"}
     \/ resp.op = "upsert_embedded" /\ Matched(pre, resp.id) # {}) =>
        /\ Cardinality(coll) = Cardinality(pre)
        /\ \A d \in pre :
               IF d \in Matched(pre, resp.id)
               THEN \E e \in coll :
                        [e EXCEPT !.arrays[resp.field_path] = d.arrays[resp.field_path]] = d
               ELSE d \in coll

\* an upsert_embedded that brings a parent document has appended to the array
\* of a parent that existed and has another name
C20_Witness ==
    /\ resp.op = "upsert_embedded"
    /\ resp.parent.ser = "Doc"
    /\ resp.out.r = "Ok"
    /\ Len(ArrayAfter) > Len(ArrayBefore)
    /\ \E d \in Matched(pre, resp.id) :
           /\ d.name # resp.parent.name
           /\ \E f \in FieldPaths : f # resp.field_path /\ d.arrays[f] # <<>>

\* a delete_embedded has removed an element under a parent whose other array is
\* not empty
C20_WitnessDelete ==
    /\ resp.op = "delete_embedded"
    /\ Len(ArrayAfter) < Len(ArrayBefore)
    /\ \E d \in Matched(pre, resp.id) :
           \E f \in FieldPaths : f # resp.field_path /\ d.arrays[f] # <<>>

\* an insert_embedded has appended an element under a parent whose other array is
\* not empty
C20_WitnessInsert ==
    /\ resp.op = "insert_embedded"
    /\ Len(ArrayAfter) > Len(ArrayBefore)
    /\ \E d \in Matched(pre, resp.id) :
           \E f \in FieldPaths : f # resp.field_path /\ d.arrays[f] # <<>>

\* what a sequentially consistent clock reads: the time that the setters which
\* have returned asked for, the system time if they asked for none
Asked == IF asked = NoMock THEN clock ELSE asked

\* C21: every now() returns what the setters that have returned asked for: t after
\* set_mock_time(t), the earlier reading plus m after increase_mock_time(m), the
\* system time after clear_mock_time().
C21_SequentiallyConsistent == resp.op = "now" => resp.out.val = Asked

\* a now() before the closure of the last setter has run reads another time than
\* was asked for
C21_StaleRead ==
    /\ resp.op = "now"
    /\ resp.pending # <<>>
    /\ resp.out.val # Asked

\* a now() after every closure has run reads another time than was asked for:
\* the closures of two setters ran in the other order, or an increase read the
\* time before the closure of the setter before it had run
C21_SettledWrong ==
    /\ resp.op = "now"
    /\ resp.pending = <<>>
    /\ resp.out.val # Asked

============================================================================
